---- MODULE Spec2Model ----
(***************************************************************************)
(* A model of the guitar-practice tool's real-time engine:                 *)
(*   - TimeScrubber (time_scrubber/time_scrubber.rs): start / stop /       *)
(*     elapsed / reset / set_elapsed and the simulate_playback loop;       *)
(*   - TabApp (gui/gui.rs): start_playback, stop_playback and the per-     *)
(*     frame handlers;                                                     *)
(*   - AudioPlayer::write_data and KarplusStrong (audio/audio_player.rs,   *)
(*     karplus_strong/karplus_strong.rs);                                  *)
(*   - process_audio_input (audio/audio_listener.rs).                      *)
(*                                                                         *)
(* Time is an integer number of milliseconds.  Instant::now() is the       *)
(* variable now; every read of the clock in the code is a read of now in   *)
(* the step that models it, and the clock advances between steps.          *)
(* Option<T> is a sequence: None is << >> and Some(x) is << x >>.          *)
(***************************************************************************)
EXTENDS Integers, Sequences, FiniteSets, TLC

\* ------------------------------------------------------------------ bounds
MaxMeasures == 2
MaxDivisions == 2
MaxNow == 1000
MaxRuns == 2
MaxVoices == 2
MaxBufferLength == 1
MaxBuffer == 8192
MaxResults == 2
MaxHistory == 2
MaxFrames == 1
HistoryN == 1
Granule == 125

\* ------------------------------------------------------- shared definitions
None == << >>
Some(x) == << x >>
IsSome(o) == o # << >>
Unwrap(o) == o[1]

Tempos == {60, 120}
DivisionsPerQuarter == {1, 2}

VARIABLES
    now,             \* Instant::now(), ms
    score,           \* the parsed Score
    configs,         \* TabApp.configs (tempo settings)
    scrubber,        \* the TimeScrubber
    pb,              \* the playback thread running simulate_playback
    app,             \* TabApp
    expected_notes,  \* Arc<Mutex<Option<Vec<Note>>>> shared with the listener
    hist,            \* history of the playback runs (not program state)
    api,             \* history of the start/stop calls (not program state)
    active_notes,    \* AudioPlayer.active_notes
    player_configs,  \* AudioPlayer.configs
    output,          \* the buffer the latest output callback filled
    output_signal,   \* AudioPlayer.output_signal
    lst,             \* the audio-input callback (process_audio_input)
    match_results,   \* the match-result channel
    call,            \* a call of a pure function: its arguments and result
    lk               \* the mutexes: who holds them, and each thread's position

audioVars == << active_notes, player_configs, output, output_signal >>
lstVars == << lst, match_results >>

vars == << now, score, configs, scrubber, pb, app, expected_notes, hist, api,
           audioVars, lstVars, call, lk >>

\* Everything but the call of a pure function.
programVars ==
    << now, score, configs, scrubber, pb, app, expected_notes, hist, api,
       audioVars, lstVars, lk >>

\* No pure function is being called.
NoCall == [op |-> "none"]

\* The threads that take mutexes: the UI thread (TabApp::update), the
\* audio-output callback and the audio-input callback.
Threads == {"ui", "output", "input"}

\* The Arc<Mutex<..>> values of the program.
Locks ==
    {"expected_notes", "configs", "active_notes", "output_signal", "input_buffer",
     "input_chroma_history", "expected_chroma_history", "input_signal_history"}

\* No mutex is held and every thread is outside the functions that lock.
NoLocks ==
    [owner |-> [l \in Locks |-> "free"],
     run |-> [t \in Threads |-> "idle"],
     pc |-> [t \in Threads |-> 0]]

\* ------------------------------------------------------------------- Score
\* A Note: the fields the engine reads.
Note(s, f, d) == [string |-> s, fret |-> f, duration |-> d]

\* Measure::new: total_divisions empty positions.
Measure_new(total_divisions) == [positions |-> [i \in 1..total_divisions |-> << >>]]

\* A Pitch: step, alter (Option<i8>) and octave.
Pitch(step, alter, octave) == [step |-> step, alter |-> alter, octave |-> octave]

\* pitch_to_midi: step_to_semitone
step_to_semitone(step) ==
    CASE step = "C" -> 0 [] step = "D" -> 2 [] step = "E" -> 4 [] step = "F" -> 5
      [] step = "G" -> 7 [] step = "A" -> 9 [] step = "B" -> 11 [] OTHER -> 0

\* alter.unwrap_or(0)
unwrap_or(option, default) == IF IsSome(option) THEN Unwrap(option) ELSE default

\* pitch_to_midi of musical_structures.rs (390-403), in u8: the semitone
\* is computed in i8 and cast with `as u8`; octave * 12 + semitone
\* overflows above 255, which panics where overflow checks are on
\* (checked) and wraps where they are off.
pitch_to_midi(pitch, checked) ==
    LET semitone == (step_to_semitone(pitch.step) + unwrap_or(pitch.alter, 0)) % (2 ^ 8)
        sum == pitch.octave * 12 + semitone
    IN [panic |-> checked /\ sum >= 2 ^ 8, value |-> sum % (2 ^ 8)]

\* pitch_to_midi of musicxml_parser.rs (308-321): computed in i16 and cast
\* with `as u16`.
parser_pitch_to_midi(pitch) ==
    (pitch.octave * 12 + step_to_semitone(pitch.step) + unwrap_or(pitch.alter, 0))
        % (2 ^ 16)

\* The open strings 1..6 in standard tuning.
string_pitches ==
    << Pitch("E", None, 4), Pitch("B", None, 3), Pitch("G", None, 3),
       Pitch("D", None, 3), Pitch("A", None, 2), Pitch("E", None, 2) >>

\* calculate_fret (both files) on the two MIDI numbers.
calculate_fret(open_midi, note_midi) ==
    IF note_midi >= open_midi THEN Some(note_midi - open_midi) ELSE None

\* The loop of calculate_string_and_fret from string i on: the first
\* string with a fret of at most 24.
RECURSIVE first_string(_, _, _)
first_string(i, open_midi, note_midi) ==
    IF i > Len(open_midi)
    THEN None
    ELSE LET fret == calculate_fret(open_midi[i], note_midi)
         IN IF IsSome(fret) /\ Unwrap(fret) <= 24
            THEN Some(<< i, Unwrap(fret) >>)
            ELSE first_string(i + 1, open_midi, note_midi)

\* calculate_string_and_fret of musical_structures.rs (333-378).  The
\* result is panic, or the value returned.
calculate_string_and_fret(pitch, checked) ==
    LET note_midi == pitch_to_midi(pitch, checked)
        open_midi == [i \in 1..Len(string_pitches) |->
                         pitch_to_midi(string_pitches[i], checked).value]
    IN IF note_midi.panic
       THEN [panic |-> TRUE, value |-> None]
       ELSE [panic |-> FALSE, value |-> first_string(1, open_midi, note_midi.value)]

\* calculate_string_and_fret of musicxml_parser.rs (244-306).
parser_calculate_string_and_fret(pitch) ==
    [panic |-> FALSE,
     value |-> first_string(1,
                   [i \in 1..Len(string_pitches) |-> parser_pitch_to_midi(string_pitches[i])],
                   parser_pitch_to_midi(pitch))]

\* A <note> element, by what parse_note reads from it.
NoteNode(v, d, c, s) == [voice |-> v, duration |-> d, is_chord |-> c, string |-> s]

\* VoiceState as parse_note creates it for a voice.
VoiceState_new ==
    [current_position |-> 0, prev_duration |-> 0, prev_is_chord |-> FALSE,
     first_note |-> TRUE]

\* Vec::resize_with(new_len, Vec::new) on the positions.
resize_with(positions, new_len) ==
    [i \in 1..new_len |-> IF i <= Len(positions) THEN positions[i] ELSE << >>]

\* parse_note (musicxml_parser.rs 106-159): st.voice_states maps a voice to
\* its VoiceState, st.measure is the measure being filled.  Position p of
\* the code is index p + 1.
parse_note(node, st) ==
    LET voice_state == st.voice_states[node.voice]
        current_position ==
            IF ~voice_state.first_note
               /\ (~voice_state.prev_is_chord \/ ~node.is_chord)
            THEN voice_state.current_position + voice_state.prev_duration
            ELSE voice_state.current_position
        positions ==
            IF current_position >= Len(st.measure.positions)
            THEN resize_with(st.measure.positions, current_position + 1)
            ELSE st.measure.positions
    IN [voice_states |->
            [st.voice_states EXCEPT ![node.voice] =
                [current_position |-> current_position,
                 prev_duration |-> node.duration,
                 prev_is_chord |-> node.is_chord,
                 first_note |-> FALSE]],
        measure |->
            [positions |->
                [positions EXCEPT ![current_position + 1] =
                    Append(@, Note(node.string, 0, node.duration))]]]

RECURSIVE parse_notes(_, _)
parse_notes(nodes, st) ==
    IF nodes = << >> THEN st ELSE parse_notes(Tail(nodes), parse_note(Head(nodes), st))

\* parse_measure (musicxml_parser.rs 94-104)
parse_measure(nodes, divisions_per_measure) ==
    parse_notes(nodes,
        [voice_states |-> [v \in {1, 2} |-> VoiceState_new],
         measure |-> Measure_new(divisions_per_measure)]).measure

\* Measure m of a score: one note in its first division, the open string m
\* lasting one division (the scores of the tests, with a different note in
\* every measure).
MeasureWithNote(total_divisions, m) ==
    [Measure_new(total_divisions) EXCEPT !.positions[1] = << Note(m, 0, 1) >>]

\* Score::parse_from_musicxml: seconds_per_beat = 60 / tempo and
\* seconds_per_division = seconds_per_beat / divisions_per_quarter, in ms.
seconds_per_beat_of(tempo) == 60000 \div tempo
seconds_per_division_of(tempo, dpq) == seconds_per_beat_of(tempo) \div dpq

MakeScore(n, dpm, tempo, dpq) ==
    [measures |-> [m \in 1..n |-> MeasureWithNote(dpm, m)],
     tempo |-> tempo,
     divisions_per_quarter |-> dpq,
     seconds_per_beat |-> seconds_per_beat_of(tempo),
     seconds_per_division |-> seconds_per_division_of(tempo, dpq),
     divisions_per_measure |-> dpm]

Scores ==
    { MakeScore(n, dpm, tempo, dpq) :
        n \in 1..MaxMeasures, dpm \in 1..MaxDivisions,
        tempo \in Tempos, dpq \in DivisionsPerQuarter }

\* ------------------------------------------------------------ TimeScrubber
\* A TimeScrubber::new that does not zero the elapsed time.
TimeScrubber_new_resuming(s) ==
    [start_time |-> None,
     total_duration |-> Some(Len(s.measures) * s.seconds_per_division
                               * s.divisions_per_measure),
     elapsed_since_start |-> s.seconds_per_division]

\* TimeScrubber::new(score)
TimeScrubber_new(s) ==
    [start_time |-> None,
     total_duration |-> Some(Len(s.measures) * s.seconds_per_division
                               * s.divisions_per_measure),
     elapsed_since_start |-> 0]

\* TimeScrubber::start, t = Instant::now()
start(ts, t) ==
    IF ts.start_time = None /\ IsSome(ts.total_duration)
    THEN [ts EXCEPT !.start_time = Some(t)]
    ELSE ts

\* A stop that forgets the time accumulated by earlier runs.
stop_overwriting(ts, t) ==
    IF IsSome(ts.start_time)
    THEN [ts EXCEPT !.elapsed_since_start = t - Unwrap(ts.start_time),
                    !.start_time = None]
    ELSE ts

\* TimeScrubber::stop, t = Instant::now()
stop(ts, t) ==
    IF IsSome(ts.start_time)
    THEN [ts EXCEPT !.elapsed_since_start = @ + (t - Unwrap(ts.start_time)),
                    !.start_time = None]
    ELSE ts

\* TimeScrubber::elapsed, t = Instant::now()
elapsed(ts, t) ==
    IF IsSome(ts.start_time)
    THEN ts.elapsed_since_start + (t - Unwrap(ts.start_time))
    ELSE ts.elapsed_since_start

\* TimeScrubber::reset
reset(ts) == [ts EXCEPT !.start_time = None, !.elapsed_since_start = 0]

\* TimeScrubber::set_elapsed, t = Instant::now()
set_elapsed(ts, new_elapsed, t) ==
    [ts EXCEPT !.elapsed_since_start = new_elapsed,
               !.start_time = IF IsSome(@) THEN Some(t - new_elapsed) ELSE @]

\* ------------------------------------------------------- simulate_playback
\* The playback thread runs TimeScrubber::new and simulate_playback.  pb holds
\* the thread's position in the function (pc) and its locals.  Two fields
\* record what the run did:
\*   after_stop  loop bodies entered with the stop flag set (counted up to 2)
\*   sent        messages sent on tx (the function never sends)
\* tempo is the value start_playback moves into the thread's closure.
NoThread ==
    [pc |-> "none", tempo |-> 0, current_measure |-> 0, current_division |-> 0,
     after_stop |-> 0, sent |-> 0]

Bump(n) == IF n < 2 THEN n + 1 ELSE n

seconds_per_measure == score.seconds_per_division * score.divisions_per_measure

\* gui.rs:341 and time_scrubber.rs:62-69: the thread constructs its scrubber,
\* starts it and enters the loop.
ThreadStart ==
    /\ pb.pc = "spawned"
    /\ scrubber' = start(TimeScrubber_new(score), now)
    /\ pb' = [pb EXCEPT !.pc = "while",
                        !.current_measure = 0,
                        !.current_division = 0]
    /\ UNCHANGED << call, lk, now, score, configs, app, expected_notes, hist,
                 api, audioVars, lstVars >>

\* line 71: the loop condition.
WhileCheck ==
    /\ pb.pc = "while"
    /\ IF elapsed(scrubber, now) < Unwrap(scrubber.total_duration)
       THEN pb' = [pb EXCEPT !.pc = "if_measure",
                             !.after_stop = IF app.stop_flag THEN Bump(@) ELSE @]
       ELSE pb' = [pb EXCEPT !.pc = "stop"]
    /\ UNCHANGED << call, lk, now, score, configs, scrubber, app, expected_notes, hist,
                 api, audioVars, lstVars >>

\* lines 73-76: a new measure starts when the clock reads a multiple of the
\* measure's duration.
IfMeasure ==
    /\ pb.pc = "if_measure"
    /\ pb' = [pb EXCEPT !.pc = "if_division",
                        !.current_measure =
                            IF elapsed(scrubber, now) % seconds_per_measure = 0
                            THEN @ + 1 ELSE @]
    /\ UNCHANGED << call, lk, now, score, configs, scrubber, app, expected_notes, hist,
                 api, audioVars, lstVars >>

\* lines 79-82: the next division.
next_division(d) ==
    IF d < score.divisions_per_measure - 1 THEN d + 1 ELSE 0

\* lines 84-85: the indexing panics out of range.
InRange(m, d) ==
    /\ m < Len(score.measures)
    /\ d < Len(score.measures[m + 1].positions)

\* lines 78-90: the division check, the slot lookup and the end of the body.
IfDivision ==
    /\ pb.pc = "if_division"
    /\ LET e == elapsed(scrubber, now)
           d == next_division(pb.current_division)
       IN IF e % score.seconds_per_division = 0
          THEN IF InRange(pb.current_measure, d)
               THEN pb' = [pb EXCEPT !.pc = "while", !.current_division = d]
               ELSE pb' = [pb EXCEPT !.pc = "panicked", !.current_division = d]
          ELSE pb' = [pb EXCEPT !.pc = "while"]
    /\ UNCHANGED << call, lk, now, score, configs, scrubber, app, expected_notes, hist,
                 api, audioVars, lstVars >>

\* line 140: self.stop(); the function returns and tx is dropped.
ThreadStop ==
    /\ pb.pc = "stop"
    /\ scrubber' = stop(scrubber, now)
    /\ pb' = [pb EXCEPT !.pc = "returned"]
    /\ UNCHANGED << call, lk, now, score, configs, app, expected_notes, hist,
                 api, audioVars, lstVars >>

ThreadEnded == pb.pc \in {"returned", "panicked"}

\* The clock.  api.run_total measures the time that passes between a call of
\* start() and the next call of stop().
Tick ==
    /\ now + Granule <= MaxNow
    /\ now' = now + Granule
    /\ api' = IF api.running THEN [api EXCEPT !.run_total = @ + Granule] ELSE api
    /\ UNCHANGED << call, lk, score, configs, scrubber, pb, app, expected_notes, hist,
                 audioVars, lstVars >>

\* ------------------------------------------------- the TimeScrubber's callers
\* A caller calls start().
ApiStart ==
    /\ scrubber' = start(scrubber, now)
    /\ api' = [api EXCEPT !.running = TRUE,
                          !.starts = IF api.running THEN @ ELSE Bump(@)]
    /\ UNCHANGED << call, lk, now, score, configs, pb, app, expected_notes, hist,
                 audioVars, lstVars >>

\* A caller calls stop().
ApiStop ==
    /\ scrubber' = stop(scrubber, now)
    /\ api' = [api EXCEPT !.running = FALSE,
                          !.stops = IF api.running THEN Bump(@) ELSE @]
    /\ UNCHANGED << call, lk, now, score, configs, pb, app, expected_notes, hist,
                 audioVars, lstVars >>

\* A caller calls reset(): the measurement starts again.
ApiReset ==
    /\ scrubber' = reset(scrubber)
    /\ api' = [running |-> FALSE, run_total |-> 0, starts |-> 0, stops |-> 0,
               adjusted |-> FALSE]
    /\ UNCHANGED << call, lk, now, score, configs, pb, app, expected_notes, hist,
                 audioVars, lstVars >>

\* A caller seeks with set_elapsed(d).
ApiSetElapsed ==
    /\ \E k \in 0..2 :
         scrubber' = set_elapsed(scrubber, k * Granule, now)
    /\ api' = [api EXCEPT !.adjusted = TRUE]
    /\ UNCHANGED << call, lk, now, score, configs, pb, app, expected_notes, hist,
                 audioVars, lstVars >>

\* ----------------------------------------------------- fixed-point samples
\* An f32 sample or coefficient x is the integer x * Scale.
Scale == 10 ^ 3

\* Product of two fixed-point values, rounded toward zero.
Mul(a, b) ==
    IF a * b >= 0 THEN (a * b) \div Scale ELSE -((-(a * b)) \div Scale)

\* f32::clamp(-1.0, 1.0)
clamp(v) == IF v < -Scale THEN -Scale ELSE IF v > Scale THEN Scale ELSE v

\* A mixing stage that forgets to clamp.
mix_unclamped(value, volume) == Mul(value, volume)

\* write_data, lines 101-105: apply the volume, prevent clipping.
mix(value, volume) == clamp(Mul(value, volume))

\* ------------------------------------------------------------ GuitarConfig
\* GuitarConfig::custom(decay, string_damping, body_resonance, body_damping,
\* string_tension, scale_length, capo_fret, volume); body_resonance in Hz,
\* the other timbre parameters fixed-point, scale_length 25.5 in, in tenths.
GuitarConfig(decay, string_damping, body_resonance, body_damping, string_tension, capo_fret, volume) ==
    [decay |-> decay, string_damping |-> string_damping,
     body_resonance |-> body_resonance, body_damping |-> body_damping,
     string_tension |-> string_tension, scale_length |-> 255,
     capo_fret |-> capo_fret, volume |-> volume]

\* Configs::new, guitar_configs[0].
DefaultGuitar == GuitarConfig(996, 500, 100, 500, 700, 0, 500)

\* Undamped strings at full tension and full volume.
LoudGuitar == GuitarConfig(Scale, 0, 100, 0, Scale, 0, Scale)

\* The configurations the UI sets: the default and, between the other two,
\* both extremes of decay, string_damping, body_damping, string_tension and
\* volume in [0, 1].
GuitarConfigs ==
    { DefaultGuitar,
      LoudGuitar,
      GuitarConfig(0, Scale, 150, Scale, 0, 0, 0) }

\* The device's sample rate and channel count.
SampleRates == {8}
sample_rate == CHOOSE r \in SampleRates : TRUE
Channels == {1, 2}

\* White noise samples, random::<f32>() * 2.0 - 1.0.
Whites == {-Scale, Scale}

\* sin(2 * PI * body_resonance / sample_rate) for a body_resonance that is a
\* multiple of a quarter of the sample rate.
body_sin(body_resonance, sr) ==
    LET quarter == ((4 * body_resonance) \div sr) % 4
    IN CASE quarter = 0 -> 0
         [] quarter = 1 -> Scale
         [] quarter = 2 -> 0
         [] quarter = 3 -> -Scale

\* ----------------------------------------------------------- KarplusStrong
\* The seeding loop of KarplusStrong::new, lines 26-35: whites[i] is the
\* i-th random sample.
RECURSIVE seed(_, _, _)
seed(whites, prev, config) ==
    IF whites = << >>
    THEN << >>
    ELSE LET tension_effect == Mul(config.string_tension, Head(whites))
             filtered == Mul(config.string_damping, prev)
                           + Mul(Scale - config.string_damping, tension_effect)
         IN << filtered >> \o seed(Tail(whites), filtered, config)

\* (sample_rate / frequency).ceil() as usize
buffer_length(frequency, sr) == (sr * 100 + frequency - 1) \div frequency

\* KarplusStrong::new; duration in ms, whites the random samples drawn.
KarplusStrong_new(frequency, duration, sr, config, whites) ==
    [buffer |-> seed(whites, 0, config),
     position |-> 0,
     remaining_samples |-> (duration * sr) \div 1000,
     config |-> config,
     sample_rate |-> sr]

\* A next_sample that leaves the read position where it is.
next_sample_stuck(v) ==
    IF v.remaining_samples = 0
    THEN None
    ELSE LET current_value == v.buffer[v.position + 1]
             next_index == (v.position + 1) % Len(v.buffer)
             next_value == v.buffer[next_index + 1]
             string_sample ==
                 Mul(v.config.decay,
                     Mul(v.config.string_damping, current_value)
                       + Mul(Scale - v.config.string_damping, next_value))
         IN Some([voice |-> [v EXCEPT !.buffer[v.position + 1] = string_sample,
                                      !.remaining_samples = @ - 1],
                  sample |-> string_sample])

\* KarplusStrong::next_sample: the voice after the call and the sample, or
\* None when remaining_samples is 0.
next_sample(v) ==
    IF v.remaining_samples = 0
    THEN None
    ELSE LET current_value == v.buffer[v.position + 1]
             next_index == (v.position + 1) % Len(v.buffer)
             next_value == v.buffer[next_index + 1]
             string_sample ==
                 Mul(v.config.decay,
                     Mul(v.config.string_damping, current_value)
                       + Mul(Scale - v.config.string_damping, next_value))
             resonated ==
                 Mul(string_sample, body_sin(v.config.body_resonance, v.sample_rate))
             body_sample == Mul(resonated, Scale - v.config.body_damping)
         IN Some([voice |-> [v EXCEPT !.buffer[v.position + 1] = string_sample,
                                      !.position = next_index,
                                      !.remaining_samples = @ - 1],
                  sample |-> Mul(string_sample, 700) + Mul(body_sample, 300)])

\* KarplusStrong::generate_audio_data: the samples until next_sample is None.
RECURSIVE generate_audio_data(_)
generate_audio_data(v) ==
    LET r == next_sample(v)
    IN IF IsSome(r)
       THEN << Unwrap(r).sample >> \o generate_audio_data(Unwrap(r).voice)
       ELSE << >>

\* ------------------------------------------------------------- frequencies
\* A frequency is an integer number of hundredths of a Hz.
\* The open strings 1..6 in standard tuning: E4 B3 G3 D3 A2 E2.
OpenStringFrequency == << 32963, 24694, 19600, 14683, 11000, 8241 >>

\* 2^(k/12) for k = 0..11, in ten-thousandths.
SemitoneRatio ==
    << 10000, 10595, 11225, 11892, 12599, 13348,
       14142, 14983, 15874, 16818, 17818, 18877 >>

\* calculate_frequency(note, scale_length, capo_fret): the open string's
\* frequency times 2^((fret + capo) / 12), scaled by the ratio of the
\* standard scale length (25.5 in, given in tenths) to scale_length.
calculate_frequency(note, scale_length, capo_fret) ==
    LET k == note.fret + capo_fret
        f == (OpenStringFrequency[note.string] * SemitoneRatio[(k % 12) + 1]
                * (2 ^ (k \div 12))) \div 10000
    IN (f * 255) \div scale_length

\* ------------------------------------------------------------- AudioPlayer
\* play_notes: a voice for every note, pushed in order; whites[i] is the
\* noise drawn for note i.
RECURSIVE play_notes(_, _, _, _, _)
play_notes(active, notes, duration, cfg, whites) ==
    IF notes = << >>
    THEN active
    ELSE LET frequency ==
                 calculate_frequency(Head(notes), cfg.scale_length, cfg.capo_fret)
             ks == KarplusStrong_new(frequency, duration, sample_rate, cfg,
                       SubSeq(Head(whites), 1, buffer_length(frequency, sample_rate)))
         IN play_notes(Append(active, ks), Tail(notes), duration, cfg, Tail(whites))

\* The noise that play_notes may draw for a list of notes.
WhiteNoise(notes) == [1..Len(notes) -> [1..MaxBufferLength -> Whites]]

\* A retain_mut whose closure keeps every voice.
RECURSIVE retain_mut_keeping(_)
retain_mut_keeping(notes) ==
    IF notes = << >>
    THEN [notes |-> << >>, value |-> 0]
    ELSE LET r == next_sample(Head(notes))
             rest == retain_mut_keeping(Tail(notes))
         IN IF IsSome(r)
            THEN [notes |-> << Unwrap(r).voice >> \o rest.notes,
                  value |-> Unwrap(r).sample + rest.value]
            ELSE [notes |-> << Head(notes) >> \o rest.notes, value |-> rest.value]

\* write_data, lines 92-99: retain_mut over the active notes, summing the
\* samples and dropping the voices that returned None.
RECURSIVE retain_mut(_)
retain_mut(notes) ==
    IF notes = << >>
    THEN [notes |-> << >>, value |-> 0]
    ELSE LET r == next_sample(Head(notes))
             rest == retain_mut(Tail(notes))
         IN IF IsSome(r)
            THEN [notes |-> << Unwrap(r).voice >> \o rest.notes,
                  value |-> Unwrap(r).sample + rest.value]
            ELSE rest

\* write_data, lines 88-112: the frames of one callback.  The result holds
\* the active notes afterwards and the value written for each frame.
RECURSIVE write_frames(_, _, _)
write_frames(notes, cfg, frames) ==
    IF frames = 0
    THEN [notes |-> notes, values |-> << >>]
    ELSE LET r == retain_mut(notes)
             value == mix(r.value, cfg.volume)
             rest == write_frames(r.notes, cfg, frames - 1)
         IN [notes |-> rest.notes, values |-> << value >> \o rest.values]

\* The interleaved output buffer: every channel of a frame gets its value.
interleave(values, channels) ==
    [i \in 1..(Len(values) * channels) |-> values[((i - 1) \div channels) + 1]]

\* write_data, lines 116-124: the history keeps the last n samples.
limit_history(signal) ==
    IF Len(signal) > HistoryN
    THEN SubSeq(signal, Len(signal) - HistoryN + 1, Len(signal))
    ELSE signal

\* The audio-output callback.
WriteData ==
    /\ \E frames \in 1..MaxFrames : \E channels \in Channels :
         LET r == write_frames(active_notes, player_configs, frames)
         IN /\ active_notes' = r.notes
            /\ output' = interleave(r.values, channels)
            /\ output_signal' = limit_history(output_signal \o r.values)
    /\ UNCHANGED << call, lk, now, score, configs, scrubber, pb, app, expected_notes, hist,
                    api, player_configs, lstVars >>

\* The note lists and durations (ms) a caller hands to play_notes.
NoteLists == { << Note(1, 0, 1) >>, << Note(1, 0, 1), Note(2, 0, 1) >> }
Durations == {250}

\* A caller of AudioPlayer::play_notes.
PlayNotes ==
    /\ \E notes \in NoteLists : \E duration \in Durations :
       \E whites \in WhiteNoise(notes) :
         /\ Len(active_notes) + Len(notes) <= MaxVoices
         /\ active_notes' =
                play_notes(active_notes, notes, duration, player_configs, whites)
    /\ UNCHANGED << call, lk, now, score, configs, scrubber, pb, app, expected_notes, hist,
                    api, player_configs, output, output_signal, lstVars >>

\* AudioPlayer::update_configs with a configuration of the UI.
UpdateConfigs ==
    /\ \E c \in GuitarConfigs :
         /\ c # player_configs
         /\ player_configs' = c
    /\ UNCHANGED << call, lk, now, score, configs, scrubber, pb, app, expected_notes, hist,
                    api, active_notes, output, output_signal, lstVars >>

\* ------------------------------------------------------------------ TabApp
\* Configs::new
Configs_new == [custom_tempo |-> 120, use_custom_tempo |-> FALSE]

\* TabApp::new.  pc is the UI thread's position: "idle" between handlers,
\* "join" while stop_playback waits in handle.join().
TabApp_new ==
    [playback_handle |-> None,
     notes_receiver |-> None,
     is_playing |-> FALSE,
     stop_flag |-> FALSE,
     previous_notes |-> None,
     current_notes |-> None,
     is_match |-> FALSE,
     current_measure |-> None,
     current_division |-> None,
     last_division |-> None,
     pc |-> "idle"]

\* start_playback, lines 335-339: the tempo handed to the scrubber.
playback_tempo(cfg, s) ==
    IF cfg.use_custom_tempo THEN cfg.custom_tempo ELSE s.tempo

\* start_playback
start_playback(a) ==
    IF a.is_playing
    THEN a
    ELSE [a EXCEPT !.notes_receiver = Some("rx_notes"),
                   !.stop_flag = FALSE,
                   !.playback_handle = Some("thread"),
                   !.is_playing = TRUE]

\* A stop_playback that drops the handle without joining the thread.
stop_playback_detaching(a) ==
    [a EXCEPT !.stop_flag = TRUE, !.playback_handle = None, !.pc = "return"]

\* stop_playback up to the join: the flag is set and the handle taken.
stop_playback_begin(a) ==
    [a EXCEPT !.stop_flag = TRUE,
              !.playback_handle = None,
              !.pc = IF IsSome(a.playback_handle) THEN "join" ELSE "return"]

\* stop_playback after the join, lines 356-359.
stop_playback_end(a) ==
    [a EXCEPT !.is_playing = FALSE,
              !.current_notes = None,
              !.previous_notes = None,
              !.is_match = FALSE,
              !.pc = "idle"]

\* handle_playback_messages, one message (notes, division, measure):
\* lines 668-679, the fields of the application.
receive_notes(a, notes, division, measure) ==
    [a EXCEPT !.last_division = a.current_division,
              !.current_division = Some(division),
              !.current_measure = Some(measure),
              !.previous_notes = IF notes # << >> THEN a.current_notes ELSE @,
              !.current_notes = IF notes # << >> THEN Some(notes) ELSE @]

\* lines 677-679: the shared expected notes.
publish_expected(old, notes) ==
    IF notes # << >> THEN Some(notes) ELSE old

\* The Play button.
Play ==
    /\ app.pc = "idle"
    /\ app.is_playing \/ hist.runs < MaxRuns
    /\ app' = start_playback(app)
    /\ pb' = IF app.is_playing THEN pb
             ELSE [pb EXCEPT !.pc = "spawned",
                             !.tempo = playback_tempo(configs, score),
                             !.after_stop = 0]
    /\ hist' = IF app.is_playing THEN hist
               ELSE [play_time |-> now,
                     runs |-> hist.runs + 1,
                     prev_advanced |-> /\ elapsed(scrubber, now) > 0
                                       /\ pb.current_division > 0]
    /\ UNCHANGED << call, lk, now, score, configs, scrubber, expected_notes,
                 api, audioVars, lstVars >>

\* The Stop button: stop_playback sets the flag and waits for the thread.
Stop ==
    /\ app.pc = "idle"
    /\ app.is_playing
    /\ app' = stop_playback_begin(app)
    /\ UNCHANGED << call, lk, now, score, configs, scrubber, pb, expected_notes, hist,
                 api, audioVars, lstVars >>

\* handle.join() returns once the thread has ended (returned or panicked);
\* stop_playback then clears the playing state.
JoinReturn ==
    /\ app.pc \in {"join", "return"}
    /\ app.pc = "join" => ThreadEnded
    /\ app' = stop_playback_end(app)
    /\ UNCHANGED << call, lk, now, score, configs, scrubber, pb, expected_notes, hist,
                 api, audioVars, lstVars >>

\* lines 681-695: the duration of the voices, seconds_per_division (of the
\* tempo in force) times the first note's duration.
note_duration(cfg, s, notes) ==
    seconds_per_division_of(playback_tempo(cfg, s), s.divisions_per_quarter)
      * notes[1].duration

\* handle_playback_messages receiving one message (notes, division, measure)
\* from notes_receiver.  The channel's contents are an input of the handler:
\* a slot of the score with its indices.  A non-empty message is also played.
HandlePlaybackMessages ==
    /\ app.pc = "idle"
    /\ IsSome(app.notes_receiver)
    /\ \E measure \in 0..(Len(score.measures) - 1) :
       \E division \in 0..(score.divisions_per_measure - 1) :
         LET notes == score.measures[measure + 1].positions[division + 1]
         IN /\ app' = receive_notes(app, notes, division, measure)
            /\ expected_notes' = publish_expected(expected_notes, notes)
            /\ IF notes # << >>
               THEN /\ Len(active_notes) + Len(notes) <= MaxVoices
                    /\ \E whites \in WhiteNoise(notes) :
                         active_notes' =
                            play_notes(active_notes, notes,
                                       note_duration(configs, score, notes),
                                       player_configs, whites)
               ELSE active_notes' = active_notes
    /\ UNCHANGED << call, lk, now, score, configs, scrubber, pb, hist,
                 api, player_configs, output, output_signal, lstVars >>

\* A handle_match_results that shows every result it receives.
handle_match_results_unguarded(a, is_match) == [a EXCEPT !.is_match = is_match]

\* handle_match_results, one result from match_result_receiver.
handle_match_results(a, is_match) ==
    [a EXCEPT !.is_match = /\ a.is_playing
                           /\ IsSome(a.current_notes)
                           /\ a.current_division # a.last_division
                           /\ is_match]

HandleMatchResults ==
    /\ app.pc = "idle"
    /\ match_results # << >>
    /\ app' = handle_match_results(app, Head(match_results))
    /\ match_results' = Tail(match_results)
    /\ UNCHANGED << call, lk, now, score, configs, scrubber, pb, expected_notes, hist,
                 api, audioVars, lst >>

\* The tempo controls, lines 1000-1011.
SetTempo ==
    /\ app.pc = "idle"
    /\ \E use \in BOOLEAN : \E t \in Tempos :
         /\ (~use) => t = configs.custom_tempo
         /\ configs' = [configs EXCEPT !.use_custom_tempo = use,
                                       !.custom_tempo = t]
         /\ configs' # configs
    /\ UNCHANGED << call, lk, now, score, scrubber, pb, app, expected_notes, hist,
                 api, audioVars, lstVars >>

\* ----------------------------------------------------------- AudioListener
\* const CHROMA_BINS, SILENCE_THRESHOLD (fixed-point), FRAME_SIZE, HOP_SIZE
CHROMA_BINS == 12
SILENCE_THRESHOLD == Scale \div 100
FRAME_SIZE == 4096
HOP_SIZE == 1024

\* The lower edges, in hundredths of a Hz, of the frequencies that round to
\* the MIDI notes 60..71, and the edge of note 72.
MidiEdges ==
    << 25418, 26929, 28530, 30227, 32024, 33929,
       35946, 38084, 40348, 42747, 45289, 47982 >>
MidiEdge72 == 2 * MidiEdges[1]

\* freq_to_midi: (69 + 12 * log2(freq / 440)).round(), for freq > 0.
RECURSIVE freq_to_midi(_)
freq_to_midi(freq) ==
    IF freq < MidiEdges[1] THEN freq_to_midi(2 * freq) - 12
    ELSE IF freq >= MidiEdge72 THEN freq_to_midi(freq \div 2) + 12
    ELSE 59 + Cardinality({i \in 1..12 : MidiEdges[i] <= freq})

\* A chroma vector: index i + 1 holds bin i, fixed-point.
ZeroChroma == [i \in 1..CHROMA_BINS |-> 0]

RECURSIVE SumSeq(_)
SumSeq(q) == IF q = << >> THEN 0 ELSE Head(q) + SumSeq(Tail(q))

\* generate_expected_chroma, lines 216-225: one count per note.
RECURSIVE count_notes(_, _)
count_notes(chroma, notes) ==
    IF notes = << >>
    THEN chroma
    ELSE LET frequency == calculate_frequency(Head(notes), 255, 0)
             pitch_class == freq_to_midi(frequency) % 12
         IN count_notes([chroma EXCEPT ![pitch_class + 1] = @ + 1], Tail(notes))

\* generate_expected_chroma
generate_expected_chroma(expected) ==
    LET chroma == IF IsSome(expected)
                  THEN count_notes(ZeroChroma, Unwrap(expected))
                  ELSE ZeroChroma
        sum == SumSeq(chroma)
    IN IF sum > 0
       THEN [i \in 1..CHROMA_BINS |-> (chroma[i] * Scale) \div sum]
       ELSE chroma

\* Quotient of two fixed-point values, rounded toward zero (b > 0).
Div(a, b) ==
    IF a >= 0 THEN (a * Scale) \div b ELSE -(((-a) * Scale) \div b)

\* f32::abs
abs(x) == IF x < 0 THEN -x ELSE x

\* normalize_signal_per_frame, line 358: the largest |x|, folded from 0.0.
RECURSIVE max_amplitude(_)
max_amplitude(signal) ==
    IF signal = << >>
    THEN 0
    ELSE LET m == max_amplitude(Tail(signal))
         IN IF abs(Head(signal)) > m THEN abs(Head(signal)) ELSE m

\* normalize_signal_per_frame
normalize_signal_per_frame(signal) ==
    IF max_amplitude(signal) = 0
    THEN [i \in 1..Len(signal) |-> 0]
    ELSE [i \in 1..Len(signal) |-> Div(signal[i], max_amplitude(signal))]

\* compute_chroma_features, lines 325-331: division by the sum.
normalize_chroma(chroma) ==
    IF SumSeq(chroma) > 0
    THEN [i \in 1..Len(chroma) |-> Div(chroma[i], SumSeq(chroma))]
    ELSE chroma

\* A smoothing whose window stops at the ends of the vector.
smooth_chroma_open(chroma) ==
    [i \in 1..Len(chroma) |->
        ((IF i = 1 THEN 0 ELSE chroma[i - 1]) + chroma[i]
         + (IF i = Len(chroma) THEN 0 ELSE chroma[i + 1])) \div 3]

\* smooth_chroma: each bin averaged with its two circular neighbours.
smooth_chroma(chroma) ==
    [i \in 1..Len(chroma) |->
        (chroma[((i - 1 + Len(chroma) - 1) % Len(chroma)) + 1] + chroma[i]
         + chroma[(i % Len(chroma)) + 1]) \div 3]

\* compute_chroma_features from the accumulated magnitudes of the bins on
\* (lines 325-336): normalisation, then smoothing.
compute_chroma_features(magnitudes) == smooth_chroma(normalize_chroma(magnitudes))

\* An f32 result that can be NaN.
F32(v) == [nan |-> FALSE, value |-> v]
NaN == [nan |-> TRUE, value |-> 0]

\* The greatest r in lo..hi with r * r <= y.
RECURSIVE isqrt(_, _, _)
isqrt(y, lo, hi) ==
    IF lo >= hi
    THEN lo
    ELSE LET mid == (lo + hi + 1) \div 2
         IN IF mid * mid <= y THEN isqrt(y, mid, hi) ELSE isqrt(y, lo, mid - 1)

\* f32::sqrt of a fixed-point value: NaN below zero.
sqrt(x) == IF x < 0 THEN NaN ELSE F32(isqrt(x * Scale, 0, x + Scale))

\* Quotient of a fixed-point value and an integer, rounded toward zero.
DivInt(a, n) == IF a >= 0 THEN a \div n ELSE -((-a) \div n)

\* a.iter().zip(b.iter()).map(|(x, y)| x * y).sum()
RECURSIVE dot_product(_, _)
dot_product(a, b) ==
    IF a = << >> \/ b = << >>
    THEN 0
    ELSE Mul(Head(a), Head(b)) + dot_product(Tail(a), Tail(b))

\* process_audio_input, lines 163-164: the sum of the squares over the
\* length.
rms_energy(signal) == DivInt(dot_product(signal, signal), Len(signal))

\* process_audio_input, lines 160-169: TRUE when the frame passes the
\* silence gate and is matched; the energy is taken of the frame
\* normalised to its own peak.
passes_silence_gate(input_signal) ==
    ~(rms_energy(normalize_signal_per_frame(input_signal)) < SILENCE_THRESHOLD)

\* compute_cosine_similarity (src/src/audio_listener/audio_listener.rs)
compute_cosine_similarity(a, b) ==
    LET magnitude_a == sqrt(dot_product(a, a)).value
        magnitude_b == sqrt(dot_product(b, b)).value
    IN IF magnitude_a > 0 /\ magnitude_b > 0
       THEN F32(Div(dot_product(a, b), Mul(magnitude_a, magnitude_b)))
       ELSE F32(0)

\* compute_pearson_correlation (src/src/audio_listener/audio_listener.rs).
\* A NaN denominator is != 0.0, and numerator / NaN is NaN.
compute_pearson_correlation(a, b) ==
    LET n == Len(a)
        sum_a == SumSeq(a)
        sum_b == SumSeq(b)
        sum_a_sq == dot_product(a, a)
        sum_b_sq == dot_product(b, b)
        sum_ab == dot_product(a, b)
        numerator == sum_ab - DivInt(Mul(sum_a, sum_b), n)
        denominator ==
            sqrt(Mul(sum_a_sq - DivInt(Mul(sum_a, sum_a), n),
                     sum_b_sq - DivInt(Mul(sum_b, sum_b), n)))
    IN IF n = 0 THEN F32(0)
       ELSE IF denominator.nan THEN NaN
       ELSE IF denominator.value # 0 THEN F32(Div(numerator, denominator.value))
       ELSE F32(0)

\* identify_peaks_expected: the bins with a positive value.
identify_peaks_expected(chroma) ==
    {i - 1 : i \in {j \in 1..CHROMA_BINS : chroma[j] > 0}}

\* A peak picker that ignores num_peaks and takes every bin with energy.
identify_peaks_input_all(chroma, num_peaks) ==
    {i - 1 : i \in {j \in 1..CHROMA_BINS : chroma[j] > 0}}

\* identify_peaks_input: the num_peaks first bins of the stable sort by
\* value, descending.  A bin's rank is the number of bins sorted before it.
identify_peaks_input(chroma, num_peaks) ==
    LET rank(i) == Cardinality({j \in 1..CHROMA_BINS :
                       \/ chroma[j] > chroma[i]
                       \/ chroma[j] = chroma[i] /\ j < i})
    IN {i - 1 : i \in {j \in 1..CHROMA_BINS : rank(j) < num_peaks}}

\* compare_chroma_peaks
compare_chroma_peaks(input_chroma, expected_chroma) ==
    LET expected_peaks == identify_peaks_expected(expected_chroma)
        input_peaks == identify_peaks_input(input_chroma, Cardinality(expected_peaks))
    IN expected_peaks \subseteq input_peaks

\* A captured frame, by what the pipeline computes from it: the RMS energy
\* of the normalised signal and the chroma features.
Tone(bins) ==
    [rms |-> 500,
     chroma |-> [i \in 1..CHROMA_BINS |-> IF (i - 1) \in bins THEN Scale ELSE 0]]
Silence == [rms |-> 0, chroma |-> ZeroChroma]
Frames == { Silence, Tone({4}), Tone({11}) }

\* The sizes of the data a callback delivers.
DataLens == { HOP_SIZE, FRAME_SIZE }

\* The listener's state: pc is the callback's position in
\* process_audio_input, input_buffer the number of buffered samples,
\* expected_notes_clone and frame its locals, the histories by length.
\* stale records whether the last comparison sent used a note set that was
\* no longer the published one (not program state).  receiver is the state
\* of the result channel seen by match_result_sender: TRUE while the
\* Receiver exists.  failed_sends counts the sends that returned Err (up to
\* 2), after_failure records a frame extracted after such a send.  fresh
\* is TRUE while the current (or last) invocation has extracted no frame.
Listener_new ==
    [pc |-> "idle",
     input_buffer |-> 0,
     frame |-> Silence,
     expected_notes_clone |-> None,
     chroma_history |-> 0,
     signal_history |-> 0,
     compared |-> 0,
     stale |-> FALSE,
     receiver |-> TRUE,
     failed_sends |-> 0,
     after_failure |-> FALSE,
     fresh |-> TRUE]

\* push on a history limited to the model's MaxHistory entries.
push_limited(len) == IF len + 1 > MaxHistory THEN MaxHistory ELSE len + 1

\* lines 123-127: a callback appends its data.
LstCallback ==
    /\ lst.pc = "idle"
    /\ \E n \in DataLens :
         /\ lst.input_buffer + n <= MaxBuffer
         /\ lst' = [lst EXCEPT !.pc = "loop", !.input_buffer = @ + n,
                               !.fresh = TRUE]
    /\ UNCHANGED << call, lk, now, score, configs, scrubber, pb, app, expected_notes, hist,
                    api, audioVars, match_results >>

\* A loop head that drains a hop before it tests the length.
LstLoopDraining ==
    /\ lst.pc = "loop"
    /\ IF lst.input_buffer < FRAME_SIZE
       THEN lst' = [lst EXCEPT !.pc = "idle",
                               !.input_buffer =
                                   IF @ < HOP_SIZE THEN 0 ELSE @ - HOP_SIZE]
       ELSE \E frame \in Frames :
              lst' = [lst EXCEPT !.pc = "get_expected",
                                 !.frame = frame,
                                 !.input_buffer = @ - HOP_SIZE,
                                 !.fresh = FALSE,
                                 !.after_failure = @ \/ (lst.failed_sends > 0)]
    /\ UNCHANGED << call, lk, now, score, configs, scrubber, pb, app, expected_notes, hist,
                    api, audioVars, match_results >>

\* lines 133-145: the loop's head; a frame is extracted and a hop drained.
LstLoop ==
    /\ lst.pc = "loop"
    /\ IF lst.input_buffer < FRAME_SIZE
       THEN lst' = [lst EXCEPT !.pc = "idle"]
       ELSE \E frame \in Frames :
              lst' = [lst EXCEPT !.pc = "get_expected",
                                 !.frame = frame,
                                 !.input_buffer = @ - HOP_SIZE,
                                 !.fresh = FALSE,
                                 !.after_failure = @ \/ (lst.failed_sends > 0)]
    /\ UNCHANGED << call, lk, now, score, configs, scrubber, pb, app, expected_notes, hist,
                    api, audioVars, match_results >>

\* lines 148-154: the expected notes are cloned under the lock.
LstGetExpected ==
    /\ lst.pc = "get_expected"
    /\ IF expected_notes = None
       THEN lst' = [lst EXCEPT !.pc = "loop"]
       ELSE lst' = [lst EXCEPT !.pc = "process",
                               !.expected_notes_clone = expected_notes]
    /\ UNCHANGED << call, lk, now, score, configs, scrubber, pb, app, expected_notes, hist,
                    api, audioVars, match_results >>

\* A processing step that compares the frame and sends nothing.
LstProcessMute ==
    /\ lst.pc = "process"
    /\ lst' = [lst EXCEPT !.pc = "loop",
                          !.compared =
                              IF lst.frame.rms < SILENCE_THRESHOLD THEN @ ELSE Bump(@)]
    /\ match_results' = match_results
    /\ UNCHANGED << call, lk, now, score, configs, scrubber, pb, app, expected_notes, hist,
                    api, audioVars >>

\* lines 157-207: the frame is processed without the lock; the comparison
\* uses the clone and its result is sent.  send(..).ok() discards the Err of
\* a disconnected channel and the loop goes on.
LstProcess ==
    /\ lst.pc = "process"
    /\ IF lst.frame.rms < SILENCE_THRESHOLD
       THEN /\ lst' = [lst EXCEPT !.pc = "loop"]
            /\ match_results' = match_results
       ELSE LET expected_chroma == generate_expected_chroma(lst.expected_notes_clone)
                match_result == compare_chroma_peaks(lst.frame.chroma, expected_chroma)
            IN /\ lst.receiver => Len(match_results) < MaxResults
               /\ lst' = [lst EXCEPT !.pc = "loop",
                                     !.chroma_history = push_limited(@),
                                     !.signal_history = push_limited(@),
                                     !.compared = Bump(@),
                                     !.stale = (lst.expected_notes_clone # expected_notes),
                                     !.failed_sends =
                                         IF lst.receiver \/ @ >= 2 THEN @ ELSE @ + 1]
               /\ match_results' = IF lst.receiver
                                    THEN Append(match_results, match_result)
                                    ELSE match_results
    /\ UNCHANGED << call, lk, now, score, configs, scrubber, pb, app, expected_notes, hist,
                    api, audioVars >>

\* The input buffer by the positions of its samples in the capture stream:
\* it holds the samples lo .. hi - 1.  A frame is the range of samples
\* from .. to - 1.
\* A loop that drains the whole frame, keeping no overlap.
RECURSIVE extract_frames_disjoint(_)
extract_frames_disjoint(b) ==
    IF b.hi - b.lo < FRAME_SIZE
    THEN b
    ELSE extract_frames_disjoint(
             [b EXCEPT !.frames = Append(@, [from |-> b.lo, to |-> b.lo + FRAME_SIZE]),
                       !.lo = @ + FRAME_SIZE])

\* An extraction that takes at most one frame in an invocation.
extract_frames_once(b) ==
    IF b.hi - b.lo < FRAME_SIZE
    THEN b
    ELSE [b EXCEPT !.frames = Append(@, [from |-> b.lo, to |-> b.lo + FRAME_SIZE]),
                   !.lo = @ + HOP_SIZE]

\* process_audio_input, lines 133-145: while the buffer holds FRAME_SIZE
\* samples, buffer[..FRAME_SIZE] is taken as a frame and buffer.drain(..HOP_SIZE)
\* removes the first HOP_SIZE samples.
RECURSIVE extract_frames(_)
extract_frames(b) ==
    IF b.hi - b.lo < FRAME_SIZE
    THEN b
    ELSE extract_frames(
             [b EXCEPT !.frames = Append(@, [from |-> b.lo, to |-> b.lo + FRAME_SIZE]),
                       !.lo = @ + HOP_SIZE])

\* process_audio_input on data of n samples: the append (lines 123-127),
\* then the loop.
process_audio_input(b, n) == extract_frames([b EXCEPT !.hi = @ + n])

\* The TabApp is dropped and with it match_result_receiver: the channel is
\* disconnected and its queued results are gone.  The input stream's
\* callback holds its own Arcs and keeps running.
DropReceiver ==
    /\ lst.receiver
    /\ lst' = [lst EXCEPT !.receiver = FALSE]
    /\ match_results' = << >>
    /\ UNCHANGED << call, lk, now, score, configs, scrubber, pb, app, expected_notes, hist,
                    api, audioVars >>

\* ------------------------------------------------------------------ mutexes
\* What a function does with the mutexes, in program order: lock() of a
\* mutex, the drop of its guard, a call into a component that locks, and a
\* send on a channel.
Lock(l) == [kind |-> "lock", on |-> l]
Unlock(l) == [kind |-> "unlock", on |-> l]
Call(f) == [kind |-> "call", on |-> f]
Send(c) == [kind |-> "send", on |-> c]

\* TabApp::handle_playback_messages for one message with notes (gui.rs
\* 677-696): the expected_notes guard lives to the end of the if block,
\* across AudioPlayer::play_notes (audio_player.rs 129-138).
\* AudioPlayer::update_configs and TabApp::render_plots take one mutex.
\* AudioPlayer::write_data (audio_player.rs 83-126): the guards are dropped
\* at the end, in reverse order of declaration.
\* process_audio_input (audio_listener.rs 123-207): the append and one
\* iteration of the loop for a frame that is compared.
Script ==
    [handle_playback_messages |->
        << Lock("expected_notes"), Call("play_notes"), Lock("configs"),
           Lock("active_notes"), Unlock("active_notes"), Unlock("configs"),
           Unlock("expected_notes") >>,
     update_configs |-> << Lock("configs"), Unlock("configs") >>,
     render_plots |-> << Lock("output_signal"), Unlock("output_signal") >>,
     write_data |->
        << Lock("active_notes"), Lock("configs"), Lock("output_signal"),
           Unlock("output_signal"), Unlock("configs"), Unlock("active_notes") >>,
     process_audio_input |->
        << Lock("input_buffer"), Unlock("input_buffer"),
           Lock("input_buffer"), Unlock("input_buffer"),
           Lock("expected_notes"), Unlock("expected_notes"),
           Lock("input_chroma_history"), Lock("expected_chroma_history"),
           Unlock("expected_chroma_history"), Unlock("input_chroma_history"),
           Lock("input_signal_history"), Unlock("input_signal_history"),
           Send("match_result_sender") >>]

\* The functions each thread runs.
ThreadFunctions ==
    [ui |-> {"handle_playback_messages", "update_configs", "render_plots"},
     output |-> {"write_data"},
     input |-> {"process_audio_input"}]

\* The operation thread t is about to perform, and the mutexes it holds.
NextOp(t) == Script[lk.run[t]][lk.pc[t]]
Held(t) == {l \in Locks : lk.owner[l] = t}
AtOp(t, kind) ==
    /\ lk.run[t] # "idle"
    /\ lk.pc[t] <= Len(Script[lk.run[t]])
    /\ NextOp(t).kind = kind

nonLockVars ==
    << now, score, configs, scrubber, pb, app, expected_notes, hist, api,
       audioVars, lstVars, call >>

\* A thread enters one of its functions.
LkBegin ==
    /\ \E t \in Threads : \E f \in ThreadFunctions[t] :
         /\ lk.run[t] = "idle"
         /\ lk' = [lk EXCEPT !.run[t] = f, !.pc[t] = 1]
    /\ UNCHANGED nonLockVars

\* mutex.lock(): the thread waits until the mutex is free.
LkAcquire ==
    /\ \E t \in Threads :
         /\ AtOp(t, "lock")
         /\ lk.owner[NextOp(t).on] = "free"
         /\ lk' = [lk EXCEPT !.owner[NextOp(t).on] = t, !.pc[t] = @ + 1]
    /\ UNCHANGED nonLockVars

\* The guard is dropped.
LkRelease ==
    /\ \E t \in Threads :
         /\ AtOp(t, "unlock")
         /\ lk' = [lk EXCEPT !.owner[NextOp(t).on] = "free", !.pc[t] = @ + 1]
    /\ UNCHANGED nonLockVars

\* The thread calls into a component that locks.
LkCall ==
    /\ \E t \in Threads :
         /\ AtOp(t, "call")
         /\ lk' = [lk EXCEPT !.pc[t] = @ + 1]
    /\ UNCHANGED nonLockVars

\* The thread sends on a channel.
LkSend ==
    /\ \E t \in Threads :
         /\ AtOp(t, "send")
         /\ lk' = [lk EXCEPT !.pc[t] = @ + 1]
    /\ UNCHANGED nonLockVars

\* The function returns.
LkReturn ==
    /\ \E t \in Threads :
         /\ lk.run[t] # "idle"
         /\ lk.pc[t] > Len(Script[lk.run[t]])
         /\ lk' = [lk EXCEPT !.run[t] = "idle", !.pc[t] = 0]
    /\ UNCHANGED nonLockVars

\* ------------------------------------------------------------ specification
\* The state after construction with the score s loaded.
InitWith(s) ==
    /\ now = 0
    /\ score = s
    /\ configs = Configs_new
    /\ scrubber = TimeScrubber_new(score)
    /\ pb = NoThread
    /\ app = TabApp_new
    /\ expected_notes = None
    /\ hist = [play_time |-> 0, runs |-> 0, prev_advanced |-> FALSE]
    /\ api = [running |-> FALSE, run_total |-> 0, starts |-> 0, stops |-> 0,
              adjusted |-> FALSE]
    /\ active_notes = << >>
    /\ player_configs = DefaultGuitar
    /\ output = << >>
    /\ output_signal = << >>
    /\ lst = Listener_new
    /\ match_results = << >>
    /\ lk = NoLocks

InitProgram == \E s \in Scores : InitWith(s)

Init == InitProgram /\ call = NoCall

Next ==
    \/ Tick
    \/ Play
    \/ Stop
    \/ JoinReturn
    \/ SetTempo
    \/ ThreadStart
    \/ WhileCheck
    \/ IfMeasure
    \/ IfDivision
    \/ ThreadStop

Spec == Init /\ [][Next]_vars

\* The TimeScrubber driven through its public methods.
NextScrubber ==
    \/ Tick
    \/ ApiStart
    \/ ApiStop
    \/ ApiReset
    \/ ApiSetElapsed

SpecScrubber == Init /\ [][NextScrubber]_vars

\* The score of the application-level specifications: two measures of two
\* divisions.
AppScore == MakeScore(2, 2, 120, 2)

InitApp == Init /\ score = AppScore

\* The AudioPlayer: its callers and the output callback.
NextAudio ==
    \/ PlayNotes
    \/ UpdateConfigs
    \/ WriteData

SpecAudio == InitApp /\ [][NextAudio]_vars

\* The UI thread's playback handlers and the playback thread.
NextApp ==
    \/ Tick
    \/ Play
    \/ Stop
    \/ JoinReturn
    \/ HandlePlaybackMessages
    \/ ThreadStart
    \/ WhileCheck
    \/ IfMeasure
    \/ IfDivision
    \/ ThreadStop

SpecApp == InitApp /\ [][NextApp]_vars

\* The audio-input callback beside the UI thread that publishes the expected
\* notes and reads the results.  The output callback touches neither; it is
\* part of SpecAudio.
NextListener ==
    \/ Play
    \/ HandlePlaybackMessages
    \/ HandleMatchResults
    \/ LstCallback
    \/ LstLoop
    \/ LstGetExpected
    \/ LstProcess

SpecListener == InitApp /\ [][NextListener]_vars

\* The same threads, with the end of the application: the UI thread's
\* handlers run while the TabApp exists.
NextDisconnect ==
    \/ lst.receiver /\ Play
    \/ lst.receiver /\ HandlePlaybackMessages
    \/ lst.receiver /\ HandleMatchResults
    \/ DropReceiver
    \/ LstCallback
    \/ LstLoop
    \/ LstGetExpected
    \/ LstProcess

SpecDisconnect == InitApp /\ [][NextDisconnect]_vars

\* A score whose slots hold a chord: the open strings 1 and 2, lasting one
\* and two divisions.
ChordScore ==
    [AppScore EXCEPT !.measures =
        [m \in 1..Len(AppScore.measures) |->
            [Measure_new(AppScore.divisions_per_measure) EXCEPT
                !.positions[1] = << Note(1, 0, 1), Note(2, 0, 2) >>]]]

\* The UI thread dispatching the chords of ChordScore to the player, beside
\* the output callback.
NextChord == Play \/ HandlePlaybackMessages \/ SetTempo \/ WriteData

InitChord == InitWith(ChordScore) /\ call = NoCall

SpecChord == InitChord /\ [][NextChord]_vars

\* The three threads and the mutexes they take.
NextLocks == LkBegin \/ LkAcquire \/ LkRelease \/ LkCall \/ LkSend \/ LkReturn

SpecLocks == InitApp /\ [][NextLocks]_vars

\* ------------------------------------------------- calls of pure functions
\* A pure function is called on arguments drawn in the initial state; the
\* call step stores its result.  The program's state stays as constructed,
\* with the score of the application-level specifications.
InitCall == InitProgram /\ score = AppScore

\* Chroma vectors with energy in the bins 0, 4 and 11 (C, E, B).
Levels == {0, Scale \div 2, Scale}
PeakBins == {0, 4, 11}
ChromaVectors ==
    { [i \in 1..CHROMA_BINS |-> IF (i - 1) \in PeakBins THEN f[i - 1] ELSE 0] :
        f \in [PeakBins -> Levels] }

\* A call compare_chroma_peaks(input, expected).
ComparePeaks ==
    /\ call.op = "compare_chroma_peaks"
    /\ ~call.done
    /\ call' = [call EXCEPT
                   !.done = TRUE,
                   !.result = compare_chroma_peaks(call.input, call.expected)]
    /\ UNCHANGED programVars

InitPeaks ==
    /\ InitCall
    /\ call \in [op : {"compare_chroma_peaks"}, input : ChromaVectors,
                  expected : ChromaVectors, done : {FALSE}, result : {FALSE}]

NextPeaks == ComparePeaks

SpecPeaks == InitPeaks /\ [][NextPeaks]_vars

\* Captured frames of MaxSignal samples.
MaxSignal == 3
SampleLevels == {-Scale, -300, 0, 5, 250, 500}
Signals == [1..MaxSignal -> SampleLevels]

\* Accumulated magnitudes (ln(1 + m) >= 0) in the bins 0, 4 and 11.
Magnitudes == {0, 300, Scale, 2500}
MagnitudeVectors ==
    { [i \in 1..CHROMA_BINS |-> IF (i - 1) \in PeakBins THEN f[i - 1] ELSE 0] :
        f \in [PeakBins -> Magnitudes] }

\* Expected notes: nothing published, an empty list, or up to MaxExpected
\* notes on the open strings 1 (E), 2 (B) and 3 (G).
MaxExpected == 3
ExpectedNotes == {Note(1, 0, 1), Note(2, 0, 1), Note(3, 0, 1)}
ExpectedInputs ==
    {None} \cup
    { Some(n) : n \in UNION { [1..k -> ExpectedNotes] : k \in 0..MaxExpected } }

\* A call normalize_signal_per_frame(signal).
NormalizeFrame ==
    /\ call.op = "normalize_signal_per_frame"
    /\ ~call.done
    /\ call' = [call EXCEPT
                   !.done = TRUE,
                   !.result = normalize_signal_per_frame(call.signal)]
    /\ UNCHANGED programVars

\* The end of a call compute_chroma_features(signal, sample_rate), from the
\* magnitudes accumulated in the bins.
ChromaFeatures ==
    /\ call.op = "compute_chroma_features"
    /\ ~call.done
    /\ call' = [call EXCEPT
                   !.done = TRUE,
                   !.result = compute_chroma_features(call.magnitudes)]
    /\ UNCHANGED programVars

\* A call generate_expected_chroma(expected_notes).
ExpectedChroma ==
    /\ call.op = "generate_expected_chroma"
    /\ ~call.done
    /\ call' = [call EXCEPT
                   !.done = TRUE,
                   !.result = generate_expected_chroma(call.expected)]
    /\ UNCHANGED programVars

\* The silence gate of process_audio_input applied to a frame.
SilenceGate ==
    /\ call.op = "passes_silence_gate"
    /\ ~call.done
    /\ call' = [call EXCEPT
                   !.done = TRUE,
                   !.result = passes_silence_gate(call.signal)]
    /\ UNCHANGED programVars

\* Vectors compared by the similarity metrics: the chroma vectors and
\* constant vectors.
ConstantLevels == {0, 150, 300, Scale \div 2}
SimilarityVectors ==
    ChromaVectors \cup { [i \in 1..CHROMA_BINS |-> c] : c \in ConstantLevels }

\* A call compute_cosine_similarity(a, b).
CosineSimilarity ==
    /\ call.op = "compute_cosine_similarity"
    /\ ~call.done
    /\ call' = [call EXCEPT
                   !.done = TRUE,
                   !.result = compute_cosine_similarity(call.a, call.b)]
    /\ UNCHANGED programVars

\* A call compute_pearson_correlation(a, b).
PearsonCorrelation ==
    /\ call.op = "compute_pearson_correlation"
    /\ ~call.done
    /\ call' = [call EXCEPT
                   !.done = TRUE,
                   !.result = compute_pearson_correlation(call.a, call.b)]
    /\ UNCHANGED programVars

InitNormalize ==
    /\ InitCall
    /\ \/ call \in [op : {"normalize_signal_per_frame"}, signal : Signals,
                     done : {FALSE}, result : {<< >>}]
       \/ call \in [op : {"passes_silence_gate"}, signal : Signals,
                     done : {FALSE}, result : {FALSE}]
       \/ call \in [op : {"compute_chroma_features"}, magnitudes : MagnitudeVectors,
                     done : {FALSE}, result : {<< >>}]
       \/ call \in [op : {"generate_expected_chroma"}, expected : ExpectedInputs,
                     done : {FALSE}, result : {<< >>}]
       \/ call \in [op : {"compute_cosine_similarity", "compute_pearson_correlation"},
                     a : SimilarityVectors, b : SimilarityVectors,
                     done : {FALSE}, result : {F32(0)}]

NextNormalize ==
    \/ NormalizeFrame
    \/ ChromaFeatures
    \/ ExpectedChroma
    \/ CosineSimilarity
    \/ PearsonCorrelation
    \/ SilenceGate

SpecNormalize == InitNormalize /\ [][NextNormalize]_vars

\* The <note> elements of a <measure>: up to MaxNotes notes in two voices,
\* lasting one or two divisions, with or without the chord tag, tabbed on
\* string 1 or 2.
MaxNotes == 3
NoteNodes ==
    { NoteNode(v, d, c, s) : v \in {1, 2}, d \in {1, 2}, c \in BOOLEAN, s \in {1, 2} }
MeasureNodes == UNION { [1..k -> NoteNodes] : k \in 0..MaxNotes }
ParseDivisions == {2, 4}

\* A call parse_measure(measure_node, divisions_per_measure).
ParseMeasure ==
    /\ call.op = "parse_measure"
    /\ ~call.done
    /\ call' = [call EXCEPT
                   !.done = TRUE,
                   !.result = parse_measure(call.nodes, call.divisions_per_measure)]
    /\ UNCHANGED programVars

InitParse ==
    /\ InitCall
    /\ \E nodes \in MeasureNodes, n \in ParseDivisions :
         call = [op |-> "parse_measure", nodes |-> nodes,
                 divisions_per_measure |-> n, done |-> FALSE,
                 result |-> Measure_new(n)]

NextParse == ParseMeasure

SpecParse == InitParse /\ [][NextParse]_vars

\* The pitches of a score: natural, flat and sharp notes of the octaves
\* around the guitar's range.
Steps == {"C", "D", "E", "F", "G", "A", "B"}
Alters == {None, Some(-1), Some(0), Some(1)}
Octaves == 1..7
Pitches == { Pitch(s, a, o) : s \in Steps, a \in Alters, o \in Octaves }

\* A call calculate_string_and_fret(pitch) of musical_structures.rs, in a
\* build with overflow checks (checked) or without.
StringAndFret ==
    /\ call.op = "calculate_string_and_fret"
    /\ ~call.done
    /\ call' = [call EXCEPT
                   !.done = TRUE,
                   !.result = calculate_string_and_fret(call.pitch, call.checked)]
    /\ UNCHANGED programVars

\* A call calculate_string_and_fret(pitch) of musicxml_parser.rs.
ParserStringAndFret ==
    /\ call.op = "parser_calculate_string_and_fret"
    /\ ~call.done
    /\ call' = [call EXCEPT
                   !.done = TRUE,
                   !.result = parser_calculate_string_and_fret(call.pitch)]
    /\ UNCHANGED programVars

InitFret ==
    /\ InitCall
    /\ call \in [op : {"calculate_string_and_fret", "parser_calculate_string_and_fret"},
                  pitch : Pitches, checked : BOOLEAN, done : {FALSE},
                  result : {[panic |-> FALSE, value |-> None]}]

NextFret == StringAndFret \/ ParserStringAndFret

SpecFret == InitFret /\ [][NextFret]_vars

\* The capture stream delivered in up to MaxChunks callbacks, each with
\* less than a hop, a hop, a frame or two frames of samples.
MaxChunks == 3
ChunkLens == {300, HOP_SIZE, FRAME_SIZE, 2 * FRAME_SIZE}
Chunkings == UNION { [1..k -> ChunkLens] : k \in 1..MaxChunks }

\* One invocation of process_audio_input, on the next chunk of the stream.
ProcessAudioInput ==
    /\ call.op = "process_audio_input"
    /\ call.data # << >>
    /\ call' = [call EXCEPT
                   !.data = Tail(@),
                   !.calls = @ + 1,
                   !.buffer = process_audio_input(@, Head(call.data))]
    /\ UNCHANGED programVars

InitExtract ==
    /\ InitCall
    /\ \E data \in Chunkings :
         call = [op |-> "process_audio_input", data |-> data, calls |-> 0,
                 buffer |-> [lo |-> 0, hi |-> 0, frames |-> << >>]]

NextExtract == ProcessAudioInput

SpecExtract == InitExtract /\ [][NextExtract]_vars

\* The arguments of KarplusStrong::new: frequencies (hundredths of a Hz),
\* durations (ms) and sample rates (Hz).
VoiceFrequencies == {300, 800, 33000}
VoiceDurations == {0, 125, 190, 250, 440}
VoiceSampleRates == {8, 10}

\* A voice is created and generate_audio_data is called on it.
GenerateAudioData ==
    /\ call.op = "generate_audio_data"
    /\ ~call.done
    /\ call' = [call EXCEPT
                   !.done = TRUE,
                   !.result = generate_audio_data(
                       KarplusStrong_new(call.frequency, call.duration,
                           call.sample_rate, call.config, call.whites))]
    /\ UNCHANGED programVars

InitVoice ==
    /\ InitCall
    /\ \E f \in VoiceFrequencies, d \in VoiceDurations, sr \in VoiceSampleRates,
          c \in GuitarConfigs :
         \E w \in [1..buffer_length(f, sr) -> Whites] :
            call = [op |-> "generate_audio_data", frequency |-> f, duration |-> d,
                    sample_rate |-> sr, config |-> c, whites |-> w,
                    done |-> FALSE, result |-> << >>]

NextVoice == GenerateAudioData

SpecVoice == InitVoice /\ [][NextVoice]_vars

\* ------------------------------------------------------------------ claims
Running == pb.pc \in {"while", "if_measure", "if_division", "stop"}

\* The position the scheduler should be at after reading elapsed time e.
PositionAt(e) ==
    LET total_divisions_elapsed == e \div score.seconds_per_division
    IN << total_divisions_elapsed \div score.divisions_per_measure,
          total_divisions_elapsed % score.divisions_per_measure >>

C5_PositionFollowsElapsed ==
    [][ (/\ pb.pc = "if_division"
         /\ pb'.pc = "while"
         /\ elapsed(scrubber, now) < Unwrap(scrubber.total_duration))
        => << pb'.current_measure, pb'.current_division >>
             = PositionAt(elapsed(scrubber, now)) ]_vars

\* C6: a run that has ended has left the scrubber Stopped with the measure
\* index within the score (at most the last measure).
C6_RunEndsStoppedAndClamped ==
    ThreadEnded =>
        /\ scrubber.start_time = None
        /\ pb.current_measure <= Len(score.measures) - 1

\* C7: when simulate_playback has returned (the sender is dropped) on a score
\* whose measures contain notes, at least one message was sent.
C7_NotesWereSent ==
    (/\ pb.pc = "returned"
     /\ \E m \in 1..Len(score.measures) :
          \E d \in 1..Len(score.measures[m].positions) :
             score.measures[m].positions[d] # << >>)
    => pb.sent >= 1

\* C9: the scrubber created for a run has total_duration = measures.len() *
\* divisions_per_measure * seconds_per_division, with seconds_per_division =
\* (60 / tempo) / divisions_per_quarter for the tempo handed to the run (the
\* override when one is given).
C9_TotalDurationFromTempo ==
    Running =>
        Unwrap(scrubber.total_duration)
          = Len(score.measures) * score.divisions_per_measure
              * seconds_per_division_of(pb.tempo, score.divisions_per_quarter)

\* C10: once the stop flag is set the scheduler enters at most one more loop
\* body.
C10_StopObservedWithinOneTick ==
    pb.after_stop <= 1

\* C1: every sample the output callback writes lies in [-1, 1], whatever the
\* number of active voices and the configuration.
C1_OutputWithinUnitRange ==
    /\ \A i \in 1..Len(output) : -Scale <= output[i] /\ output[i] <= Scale
    /\ \A i \in 1..Len(output_signal) :
          -Scale <= output_signal[i] /\ output_signal[i] <= Scale

\* C1 witness: two undamped voices at full tension and full volume have
\* just sounded together (each contributed 0.7, 1.4 in sum) and the sample
\* written is the clamped 1.
C1_Witness ==
    /\ Len(active_notes) = 2
    /\ \A i \in 1..2 :
          /\ active_notes[i].config = LoudGuitar
          /\ active_notes[i].buffer[1] = Scale
          /\ active_notes[i].remaining_samples = 1
    /\ player_configs = LoudGuitar
    /\ output = << Scale, Scale >>
    /\ output_signal = << Scale >>

\* C2: a comparison whose result is sent uses the expected-note set that is
\* published at the time of the comparison.
C2_ComparisonUsesPublishedNotes ==
    ~lst.stale

\* C4: when stop_playback returns after notes were published, no note set
\* is expected and the (measure, division) position is reset.
C4_StopClearsExpectedAndPosition ==
    [][ (app.pc \in {"join", "return"} /\ app'.pc = "idle") =>
            /\ expected_notes' = None
            /\ app'.current_measure \in {None, Some(0)}
            /\ app'.current_division \in {None, Some(0)} ]_vars

\* C8: as long as nobody seeks, elapsed() is the total time spent between
\* the start() and stop() calls: at least the time d of a run once it is
\* stopped, and not advancing while the scrubber is stopped.
C8_ElapsedIsTimeRunning ==
    (~api.adjusted) => elapsed(scrubber, now) = api.run_total

\* C8 witness: after two start/stop runs the scrubber is stopped, time has
\* passed while it was stopped, and elapsed() is the time of both runs.
C8_Witness ==
    /\ api.starts = 2
    /\ api.stops = 2
    /\ ~api.running
    /\ ~api.adjusted
    /\ scrubber.start_time = None
    /\ api.run_total >= 2 * Granule
    /\ now > api.run_total
    /\ elapsed(scrubber, now) = api.run_total

\* The bins with nonzero energy.
Nonzero(chroma) == {i \in 0..(CHROMA_BINS - 1) : chroma[i + 1] # 0}

\* The k top bins by energy: k times, the bin of greatest energy not yet
\* taken (the lowest such bin when several are equal).
RECURSIVE TopK(_, _, _)
TopK(chroma, k, taken) ==
    LET rest == (0..(CHROMA_BINS - 1)) \ taken
    IN IF k = 0 \/ rest = {}
       THEN taken
       ELSE LET best == CHOOSE i \in rest : \A j \in rest :
                           \/ chroma[i + 1] > chroma[j + 1]
                           \/ chroma[i + 1] = chroma[j + 1] /\ i <= j
            IN TopK(chroma, k - 1, taken \cup {best})

\* C11: compare_chroma_peaks(input, expected) is true iff every bin with
\* nonzero expected energy is among the top-K bins of input, K the number
\* of nonzero expected bins; it is true when expected is all zero.
C11_PeaksMatchIffTopK ==
    (call.op = "compare_chroma_peaks" /\ call.done) =>
        LET K == Cardinality(Nonzero(call.expected))
        IN /\ call.result <=> (Nonzero(call.expected) \subseteq TopK(call.input, K, {}))
           /\ (Nonzero(call.expected) = {}) => call.result

\* C11 witness: a call returned true for two expected bins against an input
\* with energy in three bins.
C11_Witness ==
    /\ call.op = "compare_chroma_peaks"
    /\ call.done
    /\ call.result
    /\ Cardinality(Nonzero(call.expected)) = 2
    /\ Cardinality(Nonzero(call.input)) = 3

\* C12: generate_audio_data() returns exactly round(duration_seconds *
\* sample_rate) samples.
C12_SampleCountIsRounded ==
    (call.op = "generate_audio_data" /\ call.done) =>
        Len(call.result) = (call.duration * call.sample_rate + 500) \div 1000

\* C13: normalising a nonzero vector gives a vector with the invariant of
\* its path.  The frame divided by its peak has largest absolute value 1;
\* the input chroma and the expected chroma each sum to 1, up to the
\* rounding of the divisions (less than one unit in the last place per bin
\* and per division).
C13_NormalizedVectorsKeepInvariant ==
    /\ (call.op = "normalize_signal_per_frame" /\ call.done
        /\ max_amplitude(call.signal) # 0)
           => max_amplitude(call.result) = Scale
    /\ (call.op = "compute_chroma_features" /\ call.done
        /\ SumSeq(call.magnitudes) # 0)
           => (Scale - SumSeq(call.result)) \in 0..(2 * CHROMA_BINS)
    /\ (call.op = "generate_expected_chroma" /\ call.done
        /\ IsSome(call.expected) /\ Unwrap(call.expected) # << >>)
           => (Scale - SumSeq(call.result)) \in 0..CHROMA_BINS

\* An input chroma computed from magnitudes in the first and the last bin.
C13_Witness ==
    /\ call.op = "compute_chroma_features" /\ call.done
    /\ call.magnitudes[1] > 0
    /\ call.magnitudes[CHROMA_BINS] > 0
    /\ call.result[1] > 0
    /\ (Scale - SumSeq(call.result)) \in 0..(2 * CHROMA_BINS)

IsConstant(v) == \A i \in 1..Len(v) : v[i] = v[1]
IsZero(v) == \A i \in 1..Len(v) : v[i] = 0

\* C14: degenerate inputs never divide by zero.  An all-zero frame is
\* normalised to the all-zero frame, the expected chroma of an empty note
\* set is the all-zero 12-vector, the cosine similarity with a zero-energy
\* vector is 0 and the Pearson correlation with a constant vector is 0.
C14_DegenerateInputsGiveZero ==
    /\ (call.op = "normalize_signal_per_frame" /\ call.done /\ IsZero(call.signal))
           => call.result = call.signal
    /\ (call.op = "generate_expected_chroma" /\ call.done
        /\ call.expected \in {None, Some(<< >>)})
           => call.result = ZeroChroma
    /\ (call.op = "compute_cosine_similarity" /\ call.done
        /\ (IsZero(call.a) \/ IsZero(call.b)))
           => call.result = F32(0)
    /\ (call.op = "compute_pearson_correlation" /\ call.done
        /\ (IsConstant(call.a) \/ IsConstant(call.b)))
           => call.result = F32(0)

\* C15: once the receiver of the result channel is disconnected the
\* producer stops quietly: at most one send fails, and no frame is
\* extracted after a failed send.
C15_ProducerStopsAfterFailedSend ==
    lst.failed_sends <= 1 /\ ~lst.after_failure

\* C16: when the capture buffer holds fewer than FRAME_SIZE samples after
\* the new data is appended, process_audio_input returns without sending a
\* result and without removing a sample: the callback's next step goes back
\* to idle with the buffer, the comparisons and the sends as they were.
C16_ShortBufferIsKept ==
    [][(lst.pc = "loop" /\ lst.fresh /\ lst.input_buffer < FRAME_SIZE
        /\ lst'.pc # lst.pc)
           => /\ lst'.pc = "idle"
              /\ lst'.fresh
              /\ lst'.input_buffer = lst.input_buffer
              /\ lst'.compared = lst.compared
              /\ lst'.failed_sends = lst.failed_sends
              /\ Len(match_results') <= Len(match_results)]_vars

\* Two invocations have returned with their samples still buffered, while
\* expected notes were published.
C16_Witness ==
    /\ lst.pc = "idle"
    /\ lst.fresh
    /\ lst.input_buffer > HOP_SIZE
    /\ lst.input_buffer < FRAME_SIZE
    /\ expected_notes # None

\* C17: no lock is held across a channel send or across a call that can
\* block: a thread that is about to send, to call into a component that
\* locks, or to wait for a mutex holds no mutex.
C17_NoLockHeldAcrossBlockingCall ==
    \A t \in Threads :
        (AtOp(t, "send") \/ AtOp(t, "call") \/ AtOp(t, "lock")) => Held(t) = {}

\* C18: every Measure has exactly divisions_per_measure positions.
\* Measure::new(n) creates n empty positions (the measure a call starts
\* from), and parsing any sequence of notes leaves n positions.
C18_MeasureKeepsItsPositions ==
    call.op = "parse_measure" =>
        /\ Len(Measure_new(call.divisions_per_measure).positions)
               = call.divisions_per_measure
        /\ \A i \in 1..call.divisions_per_measure :
               Measure_new(call.divisions_per_measure).positions[i] = << >>
        /\ ~call.done => call.result = Measure_new(call.divisions_per_measure)
        /\ call.done => Len(call.result.positions) = call.divisions_per_measure

\* The sounding voices as the configuration cfg would make them sound.
WithConfig(notes, cfg) == [i \in 1..Len(notes) |-> [notes[i] EXCEPT !.config = cfg]]

\* C19: a configuration change takes effect without restarting the stream:
\* every buffer the output callback fills is computed from the current
\* configuration, the master volume and the decay and damping of the
\* voices that were already sounding.
C19_OutputUsesCurrentConfig ==
    [][output' # output =>
          \E frames \in 1..MaxFrames : \E channels \in Channels :
              output' = interleave(
                  write_frames(WithConfig(active_notes, player_configs),
                               player_configs, frames).values,
                  channels)]_vars

\* The number of a pitch, 12 * octave + semitone + alter, and the numbers
\* of the open strings E4 B3 G3 D3 A2 E2.
Midi(pitch) ==
    12 * pitch.octave + step_to_semitone(pitch.step) + unwrap_or(pitch.alter, 0)
OpenMidi == << 12 * 4 + 4, 12 * 3 + 11, 12 * 3 + 7, 12 * 3 + 2, 12 * 2 + 9, 12 * 2 + 4 >>
Qualifies(pitch) ==
    {s \in 1..6 : OpenMidi[s] <= Midi(pitch) /\ Midi(pitch) - OpenMidi[s] <= 24}
Lowest(S) == CHOOSE s \in S : \A r \in S : s <= r

\* C20: calculate_string_and_fret(pitch) returns the lowest-numbered string
\* whose open pitch is at or below the pitch with a fret of at most 24, and
\* that fret, so that open string + fret is the pitch; None when no string
\* qualifies; E4 gives string 1, fret 0.
C20_LowestStringAndFret ==
    (call.op \in {"calculate_string_and_fret", "parser_calculate_string_and_fret"}
     /\ call.done) =>
        /\ ~call.result.panic
        /\ call.result.value =
               IF Qualifies(call.pitch) = {}
               THEN None
               ELSE Some(<< Lowest(Qualifies(call.pitch)),
                            Midi(call.pitch) - OpenMidi[Lowest(Qualifies(call.pitch))] >>)
        /\ call.pitch = Pitch("E", None, 4) => call.result.value = Some(<< 1, 0 >>)

\* Thread t waits for a mutex that thread u holds.
WaitsFor(t, u) == AtOp(t, "lock") /\ lk.owner[NextOp(t).on] = u

\* C21: the output callback (write_data) and play_notes / update_configs
\* on another thread never deadlock: in no reachable state does each of two
\* threads hold one of the active_notes and configs mutexes while it waits
\* for the other.
C21_NoDeadlockOnVoicesAndConfig ==
    ~ \E t, u \in Threads :
        /\ t # u
        /\ WaitsFor(t, u)
        /\ WaitsFor(u, t)
        /\ {NextOp(t).on, NextOp(u).on} = {"active_notes", "configs"}

\* The notes the score stores at a slot.
SlotNotes(measure, division) == score.measures[measure + 1].positions[division + 1]

\* C22: each time the dispatched (measure, division) pair changes, the
\* shared expected notes become exactly the note set stored at the new
\* slot, whether or not the slot holds notes (an empty slot leaves nothing
\* expected).
C22_ExpectedNotesFollowSlot ==
    [][(/\ << app'.current_measure, app'.current_division >>
              # << app.current_measure, app.current_division >>
        /\ IsSome(app'.current_measure)
        /\ IsSome(app'.current_division))
          => LET slot == SlotNotes(Unwrap(app'.current_measure),
                                   Unwrap(app'.current_division))
             IN IF slot = << >>
                THEN expected_notes' \in {None, Some(<< >>)}
                ELSE expected_notes' = Some(slot)]_vars

\* C23: every voice spawned on a note onset lasts seconds_per_division *
\* note.duration of the note it plays: each note of a chord gets a voice of
\* its own duration (counted in samples, as the voice stores it).
C23_VoiceLastsItsNote ==
    [][Len(active_notes') > Len(active_notes) =>
          LET slot == SlotNotes(Unwrap(app'.current_measure),
                                Unwrap(app'.current_division))
              seconds_per_division ==
                  seconds_per_division_of(playback_tempo(configs, score),
                                          score.divisions_per_quarter)
          IN \A i \in 1..Len(slot) :
                active_notes'[Len(active_notes) + i].remaining_samples
                    = (seconds_per_division * slot[i].duration * sample_rate) \div 1000]_vars

\* The voices whose countdown has not reached zero.
Sounding(notes) == SelectSeq(notes, LAMBDA v : v.remaining_samples > 0)

\* A step of the output callback: the configuration stays and no voice is
\* added.
Mixed ==
    /\ player_configs' = player_configs
    /\ Len(active_notes') <= Len(active_notes)
    /\ << active_notes', output', output_signal' >>
           # << active_notes, output, output_signal >>

\* C24 as stated: once an output frame has been mixed, the collection holds
\* no voice whose remaining_samples is 0.
C24_NoFinishedVoiceIsKept ==
    output # << >> => \A i \in 1..Len(active_notes) : active_notes[i].remaining_samples > 0

\* C24, amended: a voice whose countdown reached zero is dropped by the
\* next output callback and contributes to no later frame.  The callback
\* keeps at most the voices that were still sounding, and the frames it
\* writes are those mixed from the sounding voices alone.
C24_FinishedVoiceIsDroppedNextFrame ==
    [][Mixed =>
          /\ Len(active_notes') <= Len(Sounding(active_notes))
          /\ \E frames \in 1..MaxFrames : \E channels \in Channels :
                output' = interleave(
                    write_frames(Sounding(active_notes), player_configs, frames).values,
                    channels)]_vars

\* A frame has been mixed and a voice that gave its last sample is still in
\* the collection, beside a voice that goes on.
C24_Witness ==
    /\ output # << >>
    /\ \E i \in 1..Len(active_notes) : active_notes[i].remaining_samples = 0
    /\ \E i \in 1..Len(active_notes) : active_notes[i].remaining_samples > 0

\* C25: the k-th frame taken (k = 0, 1, ...) is the samples
\* [k * HOP_SIZE, k * HOP_SIZE + FRAME_SIZE) of the concatenated capture
\* stream; frames are taken while the buffer holds FRAME_SIZE samples, and
\* each frame taken removes HOP_SIZE samples from the front.
C25_FramesAreHopSpacedWindows ==
    call.op = "process_audio_input" =>
        /\ \A k \in 1..Len(call.buffer.frames) :
              call.buffer.frames[k] =
                  [from |-> (k - 1) * HOP_SIZE, to |-> (k - 1) * HOP_SIZE + FRAME_SIZE]
        /\ call.buffer.lo = Len(call.buffer.frames) * HOP_SIZE
        /\ call.buffer.hi - call.buffer.lo < FRAME_SIZE

\* Two invocations have run and the second took at least two frames, the
\* first of them starting in samples the first invocation left buffered.
C25_Witness ==
    /\ call.op = "process_audio_input"
    /\ call.calls = 2
    /\ Len(call.buffer.frames) >= 3
    /\ call.buffer.hi % HOP_SIZE # 0

\* C26: a frame whose energy is below the silence threshold is treated as
\* no attempt: it does not pass the gate, so no match result is sent for it
\* and the histories are left as they were.
C26_QuietFrameIsNotMatched ==
    (call.op = "passes_silence_gate" /\ call.done
     /\ rms_energy(call.signal) < SILENCE_THRESHOLD)
        => ~call.result

\* C27: exactly one match result is sent per processed frame.  The step
\* that ends the processing of an extracted frame which had expected notes
\* appends one result to the channel when the frame passed the silence
\* gate and none otherwise; no other step of the callback sends, so the
\* results are queued in frame order.
C27_OneResultPerProcessedFrame ==
    [][/\ (lst.pc = "process" /\ lst' # lst) =>
              IF lst.frame.rms < SILENCE_THRESHOLD
              THEN match_results' = match_results
              ELSE \E result \in BOOLEAN :
                      match_results' = Append(match_results, result)
       /\ (lst.pc # "process" \/ lst' = lst) =>
              \/ match_results' = match_results
              \/ match_results # << >> /\ match_results' = Tail(match_results)]_vars

\* Two frames were compared and their results, a match and then a
\* mismatch, are queued in that order.
C27_Witness ==
    /\ lst.compared = 2
    /\ match_results = << TRUE, FALSE >>

\* ------------------------------------------------- expected and played pitch
\* The frets and capo positions of the notes compared.
MaxFret == 4
MaxCapo == 2

\* play_notes, line 134: the frequency the synthesizer plays for a note.
played_frequency(note, cfg) ==
    calculate_frequency(note, cfg.scale_length, cfg.capo_fret)

\* The pitch class counted for a single expected note: the bin of
\* generate_expected_chroma that is not zero.
expected_pitch_class(note) ==
    LET chroma == generate_expected_chroma(Some(<< note >>))
    IN CHOOSE pitch_class \in 0..(CHROMA_BINS - 1) : chroma[pitch_class + 1] > 0

\* The listener's expected pitch class and the player's pitch class for one
\* note under one guitar configuration.
PitchClasses ==
    /\ call.op = "pitch_class"
    /\ ~call.done
    /\ call' = [call EXCEPT
                   !.done = TRUE,
                   !.expected = expected_pitch_class(call.note),
                   !.played = freq_to_midi(played_frequency(call.note, call.cfg)) % 12]
    /\ UNCHANGED programVars

InitCapo ==
    /\ InitCall
    /\ call \in [op : {"pitch_class"},
                  note : { Note(s, f, 1) : s \in 1..6, f \in 0..MaxFret },
                  cfg : { [DefaultGuitar EXCEPT !.capo_fret = c] : c \in 0..MaxCapo },
                  done : {FALSE}, expected : {0}, played : {0}]

NextCapo == PitchClasses

SpecCapo == InitCapo /\ [][NextCapo]_vars

\* C28: the pitch class the matcher expects for a note is the pitch class
\* of the frequency the synthesizer plays for it, whatever the capo fret of
\* the current guitar configuration.
C28_ExpectedPitchIsPlayedPitch ==
    (call.op = "pitch_class" /\ call.done) => call.expected = call.played

\* ---------------------------------------------------------------- histories
\* audio_listener.rs, lines 179-187 and 194-200: push, then remove(0) when
\* the history has more than max entries; `over` is the length tested.
remove_first_if(history, over, max) ==
    IF over > max THEN Tail(history) ELSE history

\* A push that never removes.
push_history_unlimited(history, x, max) == Append(history, x)

push_history(history, x, max) ==
    remove_first_if(Append(history, x), Len(history) + 1, max)

\* The frames processed and the samples written in one history run.
MaxPushes == MaxHistory + 2
MaxSamples == HistoryN + 4
MaxExtend == 3

\* The last n entries of a sequence.
Recent(all, n) ==
    IF Len(all) > n THEN SubSeq(all, Len(all) - n + 1, Len(all)) ELSE all

\* process_audio_input, lines 166-201, on the next frame: a frame below the
\* silence threshold is skipped before the histories; otherwise its input
\* chroma, expected chroma and signal (each named by the frame's number) are
\* pushed.  expected_chroma_hist is trimmed when input_chroma_hist is.
PushHistories ==
    /\ call.op = "history"
    /\ call.frame < MaxPushes
    /\ \E silent \in BOOLEAN :
         IF silent
         THEN call' = [call EXCEPT !.frame = @ + 1]
         ELSE LET input_chroma_hist ==
                      Append(call.input_chroma_history, call.frame)
                  expected_chroma_hist ==
                      Append(call.expected_chroma_history, call.frame)
              IN call' = [call EXCEPT
                     !.frame = @ + 1,
                     !.pushed = Append(@, call.frame),
                     !.input_chroma_history =
                         remove_first_if(input_chroma_hist,
                                         Len(input_chroma_hist), MaxHistory),
                     !.expected_chroma_history =
                         remove_first_if(expected_chroma_hist,
                                         Len(input_chroma_hist), MaxHistory),
                     !.input_signal_history =
                         push_history(@, call.frame, MaxHistory)]
    /\ UNCHANGED programVars

\* write_data, lines 115-124: the callback's samples (named by their position
\* in the output stream) are appended and the history is cut to n.
ExtendOutput ==
    /\ call.op = "history"
    /\ \E m \in 1..MaxExtend :
         /\ Len(call.written) + m <= MaxSamples
         /\ LET temp_output_signal == [i \in 1..m |-> Len(call.written) + i]
            IN call' = [call EXCEPT
                   !.written = @ \o temp_output_signal,
                   !.output_signal = limit_history(@ \o temp_output_signal)]
    /\ UNCHANGED programVars

InitHistory ==
    /\ InitCall
    /\ call = [op |-> "history", frame |-> 0, pushed |-> << >>, written |-> << >>,
               input_chroma_history |-> << >>, expected_chroma_history |-> << >>,
               input_signal_history |-> << >>, output_signal |-> << >>]

NextHistory == PushHistories \/ ExtendOutput

SpecHistory == InitHistory /\ [][NextHistory]_vars

\* C29: the histories are bounded.  After every processed frame the input
\* chroma, expected chroma and input signal histories hold the most recent
\* entries pushed, at most the limit of them, and after every output
\* callback the output-signal history holds the most recent samples
\* written, at most n of them.
C29_HistoriesAreBounded ==
    call.op = "history" =>
        /\ Len(call.input_chroma_history) <= MaxHistory
        /\ Len(call.expected_chroma_history) <= MaxHistory
        /\ Len(call.input_signal_history) <= MaxHistory
        /\ Len(call.output_signal) <= HistoryN
        /\ call.input_chroma_history = Recent(call.pushed, MaxHistory)
        /\ call.expected_chroma_history = Recent(call.pushed, MaxHistory)
        /\ call.input_signal_history = Recent(call.pushed, MaxHistory)
        /\ call.output_signal = Recent(call.written, HistoryN)

\* More frames were pushed and more samples written than the histories
\* keep, and every history is full.
C29_Witness ==
    /\ call.op = "history"
    /\ Len(call.pushed) > MaxHistory
    /\ Len(call.input_chroma_history) = MaxHistory
    /\ Len(call.input_signal_history) = MaxHistory
    /\ Len(call.written) > HistoryN
    /\ Len(call.output_signal) = HistoryN

\* C30: set_elapsed(d) makes elapsed() return d.  Right after a caller's
\* set_elapsed(d), before any time passes, elapsed() is d, whether the
\* scrubber is running or stopped.
C30_SetElapsedSetsElapsed ==
    [][\A k \in 0..2 :
          (/\ scrubber' = set_elapsed(scrubber, k * Granule, now)
           /\ api' = [api EXCEPT !.adjusted = TRUE]
           /\ now' = now)
          => elapsed(scrubber', now') = k * Granule]_vars

\* C31: during simulate_playback every slot lookup is in range.  The
\* thread never reaches the lookup score.measures[current_measure]
\* .positions[current_division] with current_measure >= measures.len() or
\* current_division >= positions.len(), that is, the indexing never panics.
C31_SlotLookupInRange == pb.pc # "panicked"

\* The division parse_note stores note k of a measure's notes in: the
\* voice's current_position after the first k notes have been parsed.
stored_position(nodes, k, divisions_per_measure) ==
    parse_notes(SubSeq(nodes, 1, k),
        [voice_states |-> [v \in {1, 2} |-> VoiceState_new],
         measure |-> Measure_new(divisions_per_measure)])
      .voice_states[nodes[k].voice].current_position

\* The notes before note k in the same voice.
Preceding(nodes, k) == { j \in 1..(k - 1) : nodes[j].voice = nodes[k].voice }

\* C32: within one voice of a measure, a note carrying the chord tag is
\* stored in the division of the note that precedes it, and a note without
\* the tag is stored at the preceding note's division plus the preceding
\* note's duration.
C32_ChordNotesShareDivision ==
    (call.op = "parse_measure" /\ call.done) =>
        \A k \in 1..Len(call.nodes) :
            Preceding(call.nodes, k) # {} =>
                LET j == CHOOSE p \in Preceding(call.nodes, k) :
                             \A q \in Preceding(call.nodes, k) : q <= p
                    at_k == stored_position(call.nodes, k, call.divisions_per_measure)
                    at_j == stored_position(call.nodes, j, call.divisions_per_measure)
                IN /\ Note(call.nodes[k].string, 0, call.nodes[k].duration)
                          \in { call.result.positions[at_k + 1][i] :
                                  i \in 1..Len(call.result.positions[at_k + 1]) }
                   /\ IF call.nodes[k].is_chord
                      THEN at_k = at_j
                      ELSE at_k = at_j + call.nodes[j].duration

\* ------------------------------------------------------- the end of playback
\* update, lines 962-968: "Check if playback has finished".
check_playback_finished(a) ==
    IF a.is_playing /\ a.stop_flag
    THEN [a EXCEPT !.is_playing = FALSE,
                   !.current_notes = None,
                   !.previous_notes = None,
                   !.is_match = FALSE]
    ELSE a

\* The end of a frame of the UI (update is called again for every frame).
CheckPlaybackFinished ==
    /\ app.pc = "idle"
    /\ app' = check_playback_finished(app)
    /\ UNCHANGED << call, lk, now, score, configs, scrubber, pb, expected_notes, hist,
                    api, audioVars, lstVars >>

\* The playback thread's steps.
ThreadStep == ThreadStart \/ WhileCheck \/ IfMeasure \/ IfDivision \/ ThreadStop

\* The UI thread's buttons and frames beside the playback thread.
NextFinish ==
    \/ Tick
    \/ Play
    \/ Stop
    \/ JoinReturn
    \/ CheckPlaybackFinished
    \/ ThreadStart
    \/ WhileCheck
    \/ IfMeasure
    \/ IfDivision
    \/ ThreadStop

SpecFinish == InitApp /\ [][NextFinish]_vars

\* Time passes, the playback thread runs, a join that can return returns and
\* the UI keeps drawing frames; the Play and Stop buttons are the user's.
SpecFinishFair ==
    /\ SpecFinish
    /\ WF_vars(Tick)
    /\ WF_vars(ThreadStep)
    /\ WF_vars(JoinReturn)
    /\ WF_vars(CheckPlaybackFinished)

\* C33: after playback reaches the end of the score without Stop being
\* pressed, the application leaves the playing state: once the playback
\* thread has returned from simulate_playback while the application is
\* playing, is_playing eventually becomes false.
C33_PlaybackEndLeavesPlaying ==
    (pb.pc = "returned" /\ app.is_playing /\ app.pc = "idle") ~> ~app.is_playing

\* C34: throughout one playback run the seconds_per_division used for the
\* voice durations is the one the scheduler was started with (pb.tempo, the
\* tempo moved into the playback thread), even when use_custom_tempo or
\* custom_tempo change while playing: the voice of a slot's first note lasts
\* that seconds_per_division times the note's duration.
C34_DurationsUseRunTempo ==
    [][(app.is_playing /\ Len(active_notes') > Len(active_notes)) =>
          LET slot == SlotNotes(Unwrap(app'.current_measure),
                                Unwrap(app'.current_division))
              seconds_per_division ==
                  seconds_per_division_of(pb.tempo, score.divisions_per_quarter)
          IN active_notes'[Len(active_notes) + 1].remaining_samples
                 = (seconds_per_division * slot[1].duration * sample_rate) \div 1000]_vars

\* C35: at most one scheduler thread runs at any time.  start_playback
\* while is_playing changes nothing, and a playback thread is spawned only
\* when the application is not playing and the previous thread, if there
\* was one, has ended (it returned or panicked and was joined).
C35_OneSchedulerThread ==
    [][/\ app.is_playing => start_playback(app) = app
       /\ hist'.runs # hist.runs =>
             /\ ~app.is_playing
             /\ pb.pc \in {"none", "returned", "panicked"}
             /\ pb'.pc = "spawned"]_vars

\* A second playback run whose thread is in its loop.
C35_Witness ==
    /\ hist.runs = 2
    /\ app.is_playing
    /\ pb.pc = "if_division"

\* ------------------------------------------------------------- match display
\* audio_listener.rs, line 207: the audio thread sends the result of a
\* compared frame; here the result is an input, either outcome at any time.
SendMatchResult ==
    /\ Len(match_results) < MaxResults
    /\ \E match_result \in BOOLEAN :
         match_results' = Append(match_results, match_result)
    /\ UNCHANGED << call, lk, now, score, configs, scrubber, pb, app, expected_notes, hist,
                    api, audioVars, lst >>

\* The UI's events (Play, Stop, dispatched notes, match results, frames)
\* beside the playback thread and the results arriving from the listener.
NextMatch ==
    \/ Tick
    \/ Play
    \/ Stop
    \/ JoinReturn
    \/ HandlePlaybackMessages
    \/ HandleMatchResults
    \/ CheckPlaybackFinished
    \/ SendMatchResult
    \/ ThreadStart
    \/ WhileCheck
    \/ IfMeasure
    \/ IfDivision
    \/ ThreadStop

\* A score of one measure with one division, a quarter of a second long.
ShortScore == MakeScore(1, 1, 120, 2)

InitMatch == InitWith(ShortScore) /\ call = NoCall

SpecMatch == InitMatch /\ [][NextMatch]_vars

\* C36: in every UI state is_match is true only if is_playing is true and
\* current_notes is set; whenever playback is not running, is_match is
\* false.
C36_MatchOnlyWhilePlaying ==
    app.is_match => (app.is_playing /\ IsSome(app.current_notes))

\* A match is displayed during a second playback run, after a Stop.
C36_Witness ==
    /\ app.is_match
    /\ hist.runs = 2
    /\ app.pc = "idle"

\* The larger of two integers.
Max(a, b) == IF a > b THEN a ELSE b

\* C37: frame extraction does not depend on how the input is chunked.  After
\* n samples in total have been delivered, over any sequence of invocations,
\* exactly max(0, floor((n - FRAME_SIZE) / HOP_SIZE) + 1) frames have been
\* extracted, and every invocation returns with fewer than FRAME_SIZE samples
\* in the buffer.
C37_FrameCountFollowsTotal ==
    call.op = "process_audio_input" =>
        LET n == call.buffer.hi
        IN /\ Len(call.buffer.frames)
                  = Max(0, ((n - FRAME_SIZE) \div HOP_SIZE) + 1)
           /\ call.buffer.hi - call.buffer.lo < FRAME_SIZE

\* Three invocations delivered a total that is not a multiple of the hop,
\* none of them a whole number of frames, and two frames were extracted.
C37_Witness ==
    /\ call.op = "process_audio_input"
    /\ call.calls = 3
    /\ call.buffer.hi = 300 + FRAME_SIZE + HOP_SIZE
    /\ Len(call.buffer.frames) = 2

\* --------------------------------------------------------------- delay line
\* The calls of next_sample made on one voice.
MaxCalls == 5

\* One call of next_sample on the voice; returned is the call's result.
NextSample ==
    /\ call.op = "next_sample"
    /\ call.calls < MaxCalls
    /\ LET r == next_sample(call.voice)
       IN call' = [call EXCEPT
                      !.calls = @ + 1,
                      !.voice = IF IsSome(r) THEN Unwrap(r).voice ELSE @,
                      !.returned = IF IsSome(r) THEN Some(Unwrap(r).sample) ELSE None]
    /\ UNCHANGED programVars

\* A voice as KarplusStrong::new makes it, with the noise it drew.
InitDelay ==
    /\ InitCall
    /\ \E f \in VoiceFrequencies, d \in VoiceDurations, sr \in VoiceSampleRates :
         \E w \in [1..buffer_length(f, sr) -> Whites] :
            call = [op |-> "next_sample", frequency |-> f, sample_rate |-> sr,
                    voice |-> KarplusStrong_new(f, d, sr, DefaultGuitar, w),
                    calls |-> 0, returned |-> None]

NextDelay == NextSample

SpecDelay == InitDelay /\ [][NextDelay]_vars

\* C38: a voice's delay line has length ceil(sample_rate / frequency) >= 1
\* (frequency in hundredths of a Hz); over the calls of next_sample the
\* length never changes, the read position stays in [0, length) and advances
\* by one modulo the length per produced sample, and once remaining_samples
\* is 0 next_sample returns None and changes nothing.
C38_DelayLineIsCircular ==
    [][call.op = "next_sample" =>
          LET v == call.voice
              after == call'.voice
              length == Len(v.buffer)
          IN /\ length >= 1
             /\ length * call.frequency >= call.sample_rate * 100
             /\ (length - 1) * call.frequency < call.sample_rate * 100
             /\ Len(after.buffer) = length
             /\ v.position \in 0..(length - 1)
             /\ after.position \in 0..(length - 1)
             /\ IF v.remaining_samples = 0
                THEN call'.returned = None /\ after = v
                ELSE /\ IsSome(call'.returned)
                     /\ after.position = (v.position + 1) % length
                     /\ after.remaining_samples = v.remaining_samples - 1]_vars

\* A voice with a delay line of two samples produced four samples, its read
\* position went around twice, and a fifth call returned None.
C38_Witness ==
    /\ call.op = "next_sample"
    /\ call.calls = 5
    /\ Len(call.voice.buffer) = 2
    /\ call.voice.position = 0
    /\ call.voice.remaining_samples = 0
    /\ call.returned = None

====
